---- MODULE Spec2Model ----
(***************************************************************************)
(* Model of the DBGuardian-AI analysis pipeline: the Decision Engine       *)
(* (engine/decision_engine.py), the Dynamic SQL Generator                  *)
(* (engine/dynamic_sql_generator.py) and the DBA Expert orchestrator       *)
(* (engine/dba_expert_engine.py).                                          *)
(*                                                                         *)
(* Numbers.  Python floats are modelled as exact rationals k/den with a    *)
(* fixed denominator per quantity: percentages are counted in units of     *)
(* 1/PctDen, per-execution times in units of 1/AvgDen.  With a power of    *)
(* two as denominator every modelled value is an exactly representable     *)
(* float, so the comparisons and the f-string roundings below are the      *)
(* ones CPython performs.  Whole-second quantities (total_elapsed,         *)
(* cpu_time) and counters are integers.                                    *)
(***************************************************************************)
EXTENDS Integers, Sequences, FiniteSets, TLC

\* ------------------------------------------------------------------------
\* Resolution of the modelled floats and sizes of the input domains
\* ------------------------------------------------------------------------
PctDen == 32
AvgDen == 16384

\* ------------------------------------------------------------------------
\* Generic helpers
\* ------------------------------------------------------------------------
Range(s) == {s[i] : i \in DOMAIN s}

Min(a, b) == IF a <= b THEN a ELSE b

\* round-half-even of n/d for n >= 0, d > 0 (what float formatting does on an
\* exactly representable value)
RoundHalfEven(n, d) ==
    LET q == n \div d
        r == n % d
    IN  IF 2 * r < d THEN q
        ELSE IF 2 * r > d THEN q + 1
        ELSE IF q % 2 = 0 THEN q ELSE q + 1

\* f"{x:.Nf}" for x = k/den, N digits: the decimal string is determined by
\* the integer round(x * 10^N); scale = 10^N
FmtFixed(k, den, scale) ==
    (k \div den) * scale + RoundHalfEven((k % den) * scale, den)

\* int(x) for x = k/den >= 0
IntTrunc(k, den) == k \div den

\* ========================================================================
\* engine/decision_engine.py
\* ========================================================================

\* class SQLCategory
SQLCategory ==
    {"BATCH_SQL", "CHATTY_SQL", "IO_BOUND_SQL", "CPU_BOUND_SQL",
     "MIXED_PROFILE_SQL", "LOW_PRIORITY"}

\* class ActionType, in declaration order
ActionType ==
    << "PLAN_ANALYSIS", "INDEX_REVIEW", "IO_OPTIMIZATION",
       "ACCESS_PATH_OPTIMIZATION", "JOIN_METHOD_REVIEW",
       "HASH_VS_NESTED_ANALYSIS", "SQL_REWRITE", "BIND_TUNING",
       "SQL_TUNING_ADVISOR", "SQL_ACCESS_ADVISOR", "APPLICATION_THROTTLING",
       "RESULT_CACHING", "INDEX_CREATION", "CPU_TUNING", "JOIN_HINTS",
       "INDEX_ONLY_FIXES", "APP_THROTTLING", "MONITOR_ONLY" >>

\* Gate thresholds of class DecisionEngine.  The two per-execution times are
\* rationals <<numerator, denominator>> (5.0 and 0.1 seconds).
BATCH_SQL_MIN_AVG_EXEC_TIME == <<5, 1>>
BATCH_SQL_MAX_EXECUTIONS == 50
CHATTY_SQL_MIN_EXECUTIONS == 1000
CHATTY_SQL_MAX_AVG_EXEC_TIME == <<1, 10>>
IO_BOUND_MIN_IO_WAIT_PCT == 70
CPU_BOUND_MIN_CPU_PCT == 70
CPU_BOUND_MAX_IO_WAIT_PCT == 30

\* comparisons of a per-execution time a (units of 1/AvgDen) with the
\* rational q, and of a percentage p (units of 1/PctDen) with the integer n
AvgGt(a, q) == a * q[2] > q[1] * AvgDen
AvgLt(a, q) == a * q[2] < q[1] * AvgDen
AvgGe(a, q) == a * q[2] >= q[1] * AvgDen
\* float('nan'), the value of a missing numeric cell: a number that is
\* neither above, below nor equal to any other
NaN == 0 - 1048576
PctGt(p, n) == p # NaN /\ p > n * PctDen
PctLt(p, n) == p # NaN /\ p < n * PctDen
PctGe(p, n) == p # NaN /\ p >= n * PctDen

\* Gate 1: avg_exec_time > 5s AND executions < 50
IsBatchSql(s) ==
    /\ AvgGt(s.avg_exec_time, BATCH_SQL_MIN_AVG_EXEC_TIME)
    /\ s.executions < BATCH_SQL_MAX_EXECUTIONS

\* Gate 2: executions > 1000 AND avg_exec_time < 0.1s
IsChattySql(s) ==
    /\ s.executions > CHATTY_SQL_MIN_EXECUTIONS
    /\ AvgLt(s.avg_exec_time, CHATTY_SQL_MAX_AVG_EXEC_TIME)

\* Gate 3: io_wait_pct > 70
IsIoBoundSql(s) == PctGt(s.io_wait_pct, IO_BOUND_MIN_IO_WAIT_PCT)

\* Gate 4: cpu_pct > 70 AND io_wait_pct < 30
IsCpuBoundSql(s) ==
    /\ PctGt(s.cpu_pct, CPU_BOUND_MIN_CPU_PCT)
    /\ PctLt(s.io_wait_pct, CPU_BOUND_MAX_IO_WAIT_PCT)

\* number of concerning traits counted by _is_mixed_profile_sql
ConcerningTraits(s) ==
      (IF AvgGt(s.avg_exec_time, <<1, 1>>) THEN 1 ELSE 0)
    + (IF s.executions > 100 THEN 1 ELSE 0)
    + (IF PctGt(s.io_wait_pct, 40) THEN 1 ELSE 0)
    + (IF PctGt(s.cpu_pct, 40) THEN 1 ELSE 0)
    + (IF PctGt(s.db_time_pct, 10) THEN 1 ELSE 0)

IsMixedProfileSql(s) == ConcerningTraits(s) >= 3

\* list(set(xs)): the distinct elements of xs in the iteration order of a
\* Python set of enum members.  That order depends on the string hash seed of
\* the process; seed selects one of the orders (a rotation of the
\* declaration order).
ListOfSet(xs, seed) ==
    LET distinct == SelectSeq(ActionType, LAMBDA a : a \in Range(xs))
        n == Len(distinct)
    IN  [i \in 1..n |-> distinct[((i - 1 + seed) % n) + 1]]

\* why_hidden / why_shown entries are modelled by their subject: the action
\* a why_hidden sentence is about, the signal a why_shown fact quotes.
DecisionResult(s, category, allowed, blocked, shown, hidden) ==
    [ sql_id          |-> s.sql_id,
      category        |-> category,
      allowed_actions |-> allowed,
      blocked_actions |-> blocked,
      signals         |-> s,
      why_shown       |-> shown,
      why_hidden      |-> hidden ]

\* Variant of _create_batch_sql_decision that also blocks PLAN_ANALYSIS while
\* still allowing it.
CreateBatchSqlDecisionBlockingAllowed(s) ==
    DecisionResult(s, "BATCH_SQL",
        << "PLAN_ANALYSIS", "INDEX_REVIEW", "IO_OPTIMIZATION",
           "SQL_ACCESS_ADVISOR", "SQL_REWRITE" >>,
        << "BIND_TUNING", "APP_THROTTLING", "APPLICATION_THROTTLING",
           "RESULT_CACHING", "PLAN_ANALYSIS" >>,
        << "avg_exec_time", "executions", "total_elapsed" >>,
        << "BIND_TUNING", "APPLICATION_THROTTLING", "RESULT_CACHING" >>)

CreateBatchSqlDecision(s) ==
    DecisionResult(s, "BATCH_SQL",
        << "PLAN_ANALYSIS", "INDEX_REVIEW", "IO_OPTIMIZATION",
           "SQL_ACCESS_ADVISOR", "SQL_REWRITE" >>,
        << "BIND_TUNING", "APP_THROTTLING", "APPLICATION_THROTTLING",
           "RESULT_CACHING" >>,
        << "avg_exec_time", "executions", "total_elapsed" >>
            \o (IF PctGt(s.io_wait_pct, 30) THEN << "io_wait_pct" >> ELSE << >>),
        << "BIND_TUNING", "APPLICATION_THROTTLING", "RESULT_CACHING" >>)

CreateChattySqlDecision(s) ==
    DecisionResult(s, "CHATTY_SQL",
        << "APPLICATION_THROTTLING", "RESULT_CACHING", "BIND_TUNING" >>,
        << "INDEX_CREATION", "SQL_TUNING_ADVISOR", "SQL_ACCESS_ADVISOR",
           "PLAN_ANALYSIS", "SQL_REWRITE" >>,
        << "executions", "avg_exec_time", "cumulative_impact" >>,
        << "INDEX_CREATION", "SQL_TUNING_ADVISOR", "SQL_ACCESS_ADVISOR",
           "PLAN_ANALYSIS" >>)

\* Variant of _create_io_bound_decision that blocks its three actions without
\* a word of explanation.
CreateIoBoundDecisionSilent(s) ==
    DecisionResult(s, "IO_BOUND_SQL",
        << "INDEX_REVIEW", "INDEX_CREATION", "ACCESS_PATH_OPTIMIZATION",
           "SQL_ACCESS_ADVISOR", "IO_OPTIMIZATION" >>,
        << "CPU_TUNING", "JOIN_HINTS", "HASH_VS_NESTED_ANALYSIS" >>,
        << "io_wait_pct", "total_elapsed", "cpu_pct" >>,
        << >>)

CreateIoBoundDecision(s) ==
    DecisionResult(s, "IO_BOUND_SQL",
        << "INDEX_REVIEW", "INDEX_CREATION", "ACCESS_PATH_OPTIMIZATION",
           "SQL_ACCESS_ADVISOR", "IO_OPTIMIZATION" >>,
        << "CPU_TUNING", "JOIN_HINTS", "HASH_VS_NESTED_ANALYSIS" >>,
        << "io_wait_pct", "total_elapsed", "cpu_pct" >>,
        << "CPU_TUNING", "JOIN_HINTS", "HASH_VS_NESTED_ANALYSIS" >>)

CreateCpuBoundDecision(s) ==
    DecisionResult(s, "CPU_BOUND_SQL",
        << "JOIN_METHOD_REVIEW", "HASH_VS_NESTED_ANALYSIS", "SQL_REWRITE",
           "PLAN_ANALYSIS", "SQL_TUNING_ADVISOR" >>,
        << "INDEX_ONLY_FIXES", "IO_OPTIMIZATION", "ACCESS_PATH_OPTIMIZATION" >>,
        << "cpu_pct", "io_wait_pct", "cpu_time" >>,
        << "INDEX_ONLY_FIXES", "IO_OPTIMIZATION", "ACCESS_PATH_OPTIMIZATION" >>)

CreateMixedProfileDecision(s, seed) ==
    DecisionResult(s, "MIXED_PROFILE_SQL",
        ListOfSet(
            << "PLAN_ANALYSIS", "SQL_TUNING_ADVISOR" >>
            \o (IF PctGt(s.io_wait_pct, 40)
                THEN << "INDEX_REVIEW", "ACCESS_PATH_OPTIMIZATION" >> ELSE << >>)
            \o (IF PctGt(s.cpu_pct, 40)
                THEN << "JOIN_METHOD_REVIEW", "SQL_REWRITE" >> ELSE << >>)
            \o (IF s.executions > 500
                THEN << "BIND_TUNING", "RESULT_CACHING" >> ELSE << >>),
            seed),
        << >>,
        << "avg_exec_time", "executions", "io_wait_pct", "cpu_pct",
           "db_time_pct" >>,
        << "NONE_BLOCKED", "COMPREHENSIVE_INVESTIGATION" >>)

CreateLowPriorityDecision(s) ==
    DecisionResult(s, "LOW_PRIORITY",
        << "MONITOR_ONLY" >>,
        << "INDEX_CREATION", "SQL_TUNING_ADVISOR", "SQL_ACCESS_ADVISOR",
           "SQL_REWRITE", "PLAN_ANALYSIS", "APPLICATION_THROTTLING" >>,
        << "avg_exec_time", "executions", "io_wait_pct", "cpu_pct" >>,
        << "ALL_TUNING_ACTIONS", "SQL_TUNING_ADVISOR", "INDEX_CREATION",
           "SQL_REWRITE" >>)

\* Variant of evaluate that tests the IO-bound gate before the batch gate.
EvaluateIoGateFirst(s, seed) ==
    IF IsIoBoundSql(s) THEN CreateIoBoundDecision(s)
    ELSE IF IsBatchSql(s) THEN CreateBatchSqlDecision(s)
    ELSE IF IsChattySql(s) THEN CreateChattySqlDecision(s)
    ELSE IF IsCpuBoundSql(s) THEN CreateCpuBoundDecision(s)
    ELSE IF IsMixedProfileSql(s) THEN CreateMixedProfileDecision(s, seed)
    ELSE CreateLowPriorityDecision(s)

\* DecisionEngine.evaluate: the first gate that matches wins
evaluate(s, seed) ==
    IF IsBatchSql(s) THEN CreateBatchSqlDecision(s)
    ELSE IF IsChattySql(s) THEN CreateChattySqlDecision(s)
    ELSE IF IsIoBoundSql(s) THEN CreateIoBoundDecision(s)
    ELSE IF IsCpuBoundSql(s) THEN CreateCpuBoundDecision(s)
    ELSE IF IsMixedProfileSql(s) THEN CreateMixedProfileDecision(s, seed)
    ELSE CreateLowPriorityDecision(s)

\* DynamicSQLGenerator._is_allowed
IsAllowed(decision, action) == action \in Range(decision.allowed_actions)

\* ========================================================================
\* engine/dynamic_sql_generator.py
\* ========================================================================
\* A generated text (sql, intent, explanation) is an f-string: a fixed
\* template with interpolated values.  It is modelled by the name of the
\* template, the interpolated words, the interpolated numbers as rendered by
\* their format specifiers, and the "-- Signal Fingerprint: ..." comment
\* lines it contains.  Two texts are equal exactly when these agree.
Text(tpl, words, nums) ==
    [tpl |-> tpl, words |-> words, nums |-> nums, fp_line |-> << >>]

TextFp(tpl, words, nums, fp) ==
    [tpl |-> tpl, words |-> words, nums |-> nums, fp_line |-> << fp >>]

\* class GeneratedSQL
GeneratedSQL(action, sql, intent, explanation, category, fingerprint) ==
    [ action             |-> action,
      sql                |-> sql,
      intent             |-> intent,
      explanation        |-> explanation,
      category           |-> category,
      signal_fingerprint |-> fingerprint ]

\* renderings of the signal fields under the format specifiers in use
Io1(s)    == IF s.io_wait_pct = NaN THEN NaN                \* {io_wait_pct:.1f}
             ELSE FmtFixed(s.io_wait_pct, PctDen, 10)
Cpu1(s)   == FmtFixed(s.cpu_pct, PctDen, 10)              \* {cpu_pct:.1f}
Avg1(s)   == FmtFixed(s.avg_exec_time, AvgDen, 10)        \* {avg_exec_time:.1f}
Avg2(s)   == FmtFixed(s.avg_exec_time, AvgDen, 100)       \* {avg_exec_time:.2f}
Avg4(s)   == FmtFixed(s.avg_exec_time, AvgDen, 10000)     \* {avg_exec_time:.4f}
AvgMs1(s) == FmtFixed(s.avg_exec_time * 1000, AvgDen, 10) \* {avg_exec_time*1000:.1f}
Te1(s)    == FmtFixed(s.total_elapsed, 1, 10)             \* {total_elapsed:.1f}
Ct1(s)    == FmtFixed(s.cpu_time, 1, 10)                  \* {cpu_time:.1f}

\* _create_signal_fingerprint: exec=<N>|avgtime=<F.4>|cpu=<F.1>|io=<F.1>
CreateSignalFingerprint(s) == << s.executions, Avg4(s), Cpu1(s), Io1(s) >>

\* _generate_task_suffix: <int(total_elapsed)>_<int(io)>io_<int(cpu)>cpu
GenerateTaskSuffix(s) ==
    << IntTrunc(s.total_elapsed, 1), IntTrunc(s.io_wait_pct, PctDen),
       IntTrunc(s.cpu_pct, PctDen) >>

\* _calculate_advisor_time_limit
CalculateAdvisorTimeLimit(s) ==
    IF s.total_elapsed > 500 \/ PctGt(s.io_wait_pct, 90) THEN 600
    ELSE IF s.total_elapsed > 100 \/ PctGt(s.io_wait_pct, 70) THEN 300
    ELSE IF AvgGt(s.avg_exec_time, <<10, 1>>) THEN 180
    ELSE 60

\* _determine_analysis_scope
DetermineAnalysisScope(s) ==
    IF PctGt(s.io_wait_pct, 80) THEN "FULL"
    ELSE IF PctGt(s.io_wait_pct, 50) THEN "INDEX_ONLY"
    ELSE IF PctGt(s.cpu_pct, 70) THEN "PARTITION_ONLY"
    ELSE "COMPREHENSIVE"

\* _determine_workload_scope
DetermineWorkloadScope(s) ==
    IF s.executions < 10 THEN "LIMITED"
    ELSE IF s.executions > 100 THEN "COMPREHENSIVE"
    ELSE "STANDARD"

\* _get_category_base_format
GetCategoryBaseFormat(category) ==
    CASE category = "BATCH_SQL"         -> << "ALLSTATS LAST" >>
      [] category = "CHATTY_SQL"        -> << "BASIC" >>
      [] category = "IO_BOUND_SQL"      -> << "ALLSTATS LAST", "+IOSTATS" >>
      [] category = "CPU_BOUND_SQL"     -> << "ALLSTATS LAST", "+COST", "+PREDICATE" >>
      [] category = "MIXED_PROFILE_SQL" -> << "ALLSTATS LAST", "+COST" >>
      [] OTHER                          -> << "BASIC" >>

\* _add_unique, folded over the items to add
RECURSIVE AddUnique(_, _)
AddUnique(parts, items) ==
    IF items = << >> THEN parts
    ELSE AddUnique(IF Head(items) \in Range(parts) THEN parts
                   ELSE Append(parts, Head(items)),
                   Tail(items))

\* _assemble_format_string: sorted(parts, key=order.index).  The parts are
\* pairwise distinct and all occur in the order list, so the sorted list is
\* the order list restricted to the parts.
FormatOrder ==
    << "BASIC", "TYPICAL", "ALLSTATS", "ALLSTATS LAST",
       "+COST", "+PREDICATE", "+PROJECTION", "+ALIAS",
       "+IOSTATS", "+MEMSTATS", "+PARALLEL", "+PARTITION",
       "+PEEKED_BINDS", "+ADAPTIVE", "+BIND_AWARE", "+OUTLINE" >>

AssembleFormatString(parts) ==
    SelectSeq(FormatOrder, LAMBDA t : t \in Range(parts))

\* The five threshold analyses of _generate_dynamic_xplan.  Each yields the
\* format tokens it adds, the label of the explanation part it appends and
\* the number rendered in that part.
XplanIo(s, category) ==
    IF PctGe(s.io_wait_pct, 90)
        THEN [add |-> << "+IOSTATS", "+PARALLEL", "+PARTITION" >>,
              why |-> << "io CRITICAL" >>, num |-> << Io1(s) >>]
    ELSE IF PctGe(s.io_wait_pct, 70)
        THEN [add |-> << "+IOSTATS", "+PARALLEL" >>,
              why |-> << "io HIGH" >>, num |-> << Io1(s) >>]
    ELSE IF PctGe(s.io_wait_pct, 50)
        THEN [add |-> << "+IOSTATS" >>,
              why |-> << "io MODERATE" >>, num |-> << Io1(s) >>]
    ELSE IF PctGe(s.io_wait_pct, 30) /\ category = "BATCH_SQL"
        THEN [add |-> << "+IOSTATS" >>,
              why |-> << "io batch context" >>, num |-> << Io1(s) >>]
    ELSE [add |-> << >>, why |-> << >>, num |-> << >>]

XplanCpu(s, category) ==
    IF PctGe(s.cpu_pct, 90)
        THEN [add |-> << "+COST", "+PREDICATE", "+PROJECTION" >>,
              why |-> << "cpu CRITICAL" >>, num |-> << Cpu1(s) >>]
    ELSE IF PctGe(s.cpu_pct, 70)
        THEN [add |-> << "+COST", "+PREDICATE" >>,
              why |-> << "cpu HIGH" >>, num |-> << Cpu1(s) >>]
    ELSE IF PctGe(s.cpu_pct, 50)
        THEN [add |-> << "+COST" >>,
              why |-> << "cpu MODERATE" >>, num |-> << Cpu1(s) >>]
    ELSE IF PctGe(s.cpu_pct, 30) /\ category \in {"BATCH_SQL", "CPU_BOUND_SQL"}
        THEN [add |-> << "+COST" >>,
              why |-> << "cpu" >>, num |-> << Cpu1(s) >>]
    ELSE [add |-> << >>, why |-> << >>, num |-> << >>]

XplanExec(s) ==
    IF s.executions >= 5000
        THEN [add |-> << "+PEEKED_BINDS", "+ADAPTIVE", "+BIND_AWARE" >>,
              why |-> << "executions VERY HIGH" >>, num |-> << s.executions >>]
    ELSE IF s.executions >= 1000
        THEN [add |-> << "+PEEKED_BINDS", "+ADAPTIVE" >>,
              why |-> << "executions HIGH" >>, num |-> << s.executions >>]
    ELSE IF s.executions >= 500
        THEN [add |-> << "+PEEKED_BINDS" >>,
              why |-> << "executions" >>, num |-> << s.executions >>]
    ELSE IF s.executions < 50 /\ AvgGe(s.avg_exec_time, <<5, 1>>)
        THEN [add |-> << "+OUTLINE", "+ALIAS" >>,
              why |-> << "executions batch pattern" >>, num |-> << s.executions >>]
    ELSE [add |-> << >>, why |-> << >>, num |-> << >>]

XplanElapsed(s, category) ==
    IF s.total_elapsed >= 500
        THEN [add |-> << "+MEMSTATS", "+PARALLEL" >>,
              why |-> << "total_elapsed VERY HIGH" >>, num |-> << Te1(s) >>]
    ELSE IF s.total_elapsed >= 100
        THEN [add |-> << "+MEMSTATS" >>
                      \o (IF category = "BATCH_SQL" THEN << "+PARALLEL" >> ELSE << >>),
              why |-> << "total_elapsed" >>, num |-> << Te1(s) >>]
    ELSE IF s.total_elapsed >= 50
        THEN [add |-> << "+MEMSTATS" >>,
              why |-> << "total_elapsed" >>, num |-> << Te1(s) >>]
    ELSE [add |-> << >>, why |-> << >>, num |-> << >>]

XplanAvg(s) ==
    IF AvgGe(s.avg_exec_time, <<30, 1>>)
        THEN [add |-> << "+OUTLINE" >>,
              why |-> << "avg_exec SLOW" >>, num |-> << Avg2(s) >>]
    ELSE IF AvgGe(s.avg_exec_time, <<10, 1>>)
        THEN [add |-> << "+OUTLINE" >>,
              why |-> << "avg_exec" >>, num |-> << Avg2(s) >>]
    ELSE IF AvgLt(s.avg_exec_time, <<1, 10>>) /\ s.executions > 500
        THEN [add |-> << >>,
              why |-> << "avg_exec ms fast high freq" >>, num |-> << AvgMs1(s) >>]
    ELSE [add |-> << >>, why |-> << >>, num |-> << >>]

\* _generate_dynamic_xplan
GenerateDynamicXplan(s, category) ==
    LET a == XplanIo(s, category)
        b == XplanCpu(s, category)
        c == XplanExec(s)
        d == XplanElapsed(s, category)
        e == XplanAvg(s)
        format_parts ==
            AddUnique(GetCategoryBaseFormat(category),
                      a.add \o b.add \o c.add \o d.add \o e.add)
        explanation_why == a.why \o b.why \o c.why \o d.why \o e.why
        explanation_num == a.num \o b.num \o c.num \o d.num \o e.num
        fingerprint == CreateSignalFingerprint(s)
    IN  GeneratedSQL("PLAN_ANALYSIS",
            TextFp("Dynamic XPLAN",
                   << category, s.sql_id >> \o AssembleFormatString(format_parts),
                   << Io1(s), Cpu1(s), s.executions >>,
                   fingerprint),
            Text("Analyze execution plan", << s.sql_id, category >>, << >>),
            IF explanation_why # << >>
                THEN Text("Generated because", explanation_why, explanation_num)
                ELSE Text("Base analysis for", << category >>, << >>),
            category,
            fingerprint)

\* _generate_access_advisor_io_focused
GenerateAccessAdvisorIoFocused(s) ==
    LET task_suffix == GenerateTaskSuffix(s)
        focus_mode == IF PctGe(s.io_wait_pct, 90) THEN "INDEX"
                      ELSE IF PctGe(s.io_wait_pct, 70) THEN "INDEX_PARTITION"
                      ELSE "COMPREHENSIVE"
        storage_analysis == IF PctGe(s.io_wait_pct, 70) THEN "TRUE" ELSE "FALSE"
        recommendations_limit == IF PctGe(s.io_wait_pct, 90) THEN 20
                                 ELSE IF PctGe(s.io_wait_pct, 70) THEN 15
                                 ELSE 10
        time_limit == CalculateAdvisorTimeLimit(s)
    IN  GeneratedSQL("SQL_ACCESS_ADVISOR",
            Text("SQL Access Advisor (IO-Focused)",
                 << s.sql_id, focus_mode, storage_analysis >>,
                 << Io1(s), Cpu1(s), Te1(s), s.executions >> \o task_suffix
                    \o << time_limit, time_limit \div 60, recommendations_limit >>),
            Text("Run IO-focused Access Advisor", << s.sql_id >>, << Io1(s) >>),
            Text("Generated because io_wait_pct", << >>, << Io1(s), Te1(s) >>),
            "IO_BOUND_SQL",
            CreateSignalFingerprint(s))

\* _generate_access_advisor_full
GenerateAccessAdvisorFull(s) ==
    LET task_suffix == GenerateTaskSuffix(s)
        time_limit == CalculateAdvisorTimeLimit(s)
        analysis_scope == DetermineAnalysisScope(s)
        workload_scope == DetermineWorkloadScope(s)
    IN  GeneratedSQL("SQL_ACCESS_ADVISOR",
            Text("SQL Access Advisor for Batch SQL Analysis",
                 << s.sql_id, analysis_scope, workload_scope >>,
                 << Io1(s), Cpu1(s), Avg2(s), s.executions >> \o task_suffix
                    \o << time_limit, time_limit \div 60 >>),
            Text("Run full SQL Access Advisor analysis", << s.sql_id >>, << >>),
            Text("Generated because avg_exec_time", << >>,
                 << Avg2(s), s.executions, Io1(s) >>),
            "BATCH_SQL",
            CreateSignalFingerprint(s))

\* _generate_access_advisor_limited
GenerateAccessAdvisorLimited(s) ==
    LET task_suffix == GenerateTaskSuffix(s)
        io_level == IF PctGt(s.io_wait_pct, 50) THEN "high" ELSE "moderate"
    IN  GeneratedSQL("SQL_ACCESS_ADVISOR_LIMITED",
            Text("SQL Access Advisor: LIMITED Scope",
                 << s.sql_id, io_level >>,
                 << Io1(s), s.executions >> \o task_suffix),
            Text("Run LIMITED scope Access Advisor", << s.sql_id >>, << >>),
            Text("LIMITED scope because io_wait_pct", << >>, << Io1(s) >>),
            "BATCH_SQL",
            CreateSignalFingerprint(s))

\* _generate_tuning_advisor_cpu
GenerateTuningAdvisorCpu(s) ==
    LET task_suffix == GenerateTaskSuffix(s)
        scope == IF PctGe(s.cpu_pct, 70) THEN "COMPREHENSIVE" ELSE "LIMITED"
        time_limit == IF PctGe(s.cpu_pct, 90) THEN 600
                      ELSE IF PctGe(s.cpu_pct, 70) THEN 300
                      ELSE 120
        focus_areas == IF PctGe(s.cpu_pct, 90)
                           THEN "plan alternative, SQL profile, restructure"
                       ELSE IF PctGe(s.cpu_pct, 70)
                           THEN "plan alternative, SQL profile"
                       ELSE "SQL profile"
        execution_context == IF s.executions >= 1000 THEN "High-frequency"
                             ELSE IF s.executions < 10 THEN "Low-frequency"
                             ELSE ""
    IN  GeneratedSQL("SQL_TUNING_ADVISOR",
            Text("SQL Tuning Advisor for CPU-Bound SQL",
                 << s.sql_id, focus_areas, scope, execution_context >>,
                 << Cpu1(s), Io1(s), Te1(s), s.executions >> \o task_suffix
                    \o << time_limit, time_limit \div 60, Ct1(s) >>),
            Text("Run SQL Tuning Advisor for CPU-bound SQL", << s.sql_id >>,
                 << Cpu1(s) >>),
            Text("Generated because cpu_pct", << >>, << Cpu1(s), Ct1(s) >>),
            "CPU_BOUND_SQL",
            CreateSignalFingerprint(s))

\* _generate_index_usage_check
GenerateIndexUsageCheck(s) ==
    GeneratedSQL("INDEX_REVIEW",
        Text("Index Usage Analysis", << s.sql_id >>, << s.executions, Avg2(s) >>),
        Text("Review index usage", << s.sql_id >>, << >>),
        Text("Generated because executions", << >>, << s.executions, Avg2(s) >>),
        "BATCH_SQL",
        CreateSignalFingerprint(s))

\* _generate_join_analysis
GenerateJoinAnalysis(s) ==
    LET severity == IF PctGe(s.cpu_pct, 90) THEN "CRITICAL"
                    ELSE IF PctGe(s.cpu_pct, 70) THEN "HIGH"
                    ELSE "MODERATE"
        cartesian_section == IF PctGe(s.cpu_pct, 70)
                                 THEN << "cartesian_section" >> ELSE << >>
        estimate_section == << "estimate_section" >>
        hint_section == IF PctGe(s.cpu_pct, 90)
                            THEN << "hint_section" >> ELSE << >>
    IN  GeneratedSQL("JOIN_METHOD_REVIEW",
            Text("Join Method Analysis for CPU-Bound SQL",
                 << s.sql_id, severity >> \o cartesian_section
                    \o estimate_section \o hint_section,
                 << Cpu1(s), Io1(s), Ct1(s), s.executions >>),
            Text("Analyze join methods causing CPU overhead",
                 << s.sql_id, severity >>, << >>),
            Text("Generated because cpu_pct", << >>,
                 << Cpu1(s), Io1(s), Ct1(s) >>),
            "CPU_BOUND_SQL",
            CreateSignalFingerprint(s))

\* _generate_comprehensive_analysis
GenerateComprehensiveAnalysis(s) ==
    GeneratedSQL("COMPREHENSIVE_ANALYSIS",
        Text("Comprehensive Analysis for Mixed Profile SQL", << s.sql_id >>,
             << Cpu1(s), Io1(s), s.executions, Avg2(s) >>),
        Text("Comprehensive analysis for mixed profile SQL", << s.sql_id >>, << >>),
        Text("Generated because multiple concerning metrics", << >>,
             << Cpu1(s), Io1(s), s.executions >>),
        "MIXED_PROFILE_SQL",
        CreateSignalFingerprint(s))

\* _generate_baseline_monitoring
GenerateBaselineMonitoring(s) ==
    GeneratedSQL("MONITOR_ONLY",
        Text("Baseline Monitoring", << s.sql_id >>,
             << Cpu1(s), Io1(s), s.executions >>),
        Text("Establish monitoring baseline", << s.sql_id >>, << >>),
        Text("Generated because SQL does not meet problem thresholds", << >>,
             << Cpu1(s), Io1(s) >>),
        "LOW_PRIORITY",
        CreateSignalFingerprint(s))

\* The confirmation-step copy of the XPLAN artifact that the IO-bound and
\* CPU-bound generators emit: the header line of the sql is replaced, the
\* intent is rewritten and the explanation gets a prefix.
ConfirmationXplan(s, category, header, intent, prefix) ==
    LET xplan == GenerateDynamicXplan(s, category)
    IN  GeneratedSQL(xplan.action,
            [xplan.sql EXCEPT !.tpl = header],
            Text(intent, << s.sql_id >>, << >>),
            [xplan.explanation EXCEPT !.words = << prefix >> \o @],
            xplan.category,
            xplan.signal_fingerprint)

\* Variant of _generate_io_bound_commands_dba_style that runs the advisor from
\* an IO wait of 90 percent on, not above it.
GenerateIoBoundCommandsAdvisorAt90(s, decision) ==
    LET fingerprint == CreateSignalFingerprint(s)
        io_severity == IF PctGt(s.io_wait_pct, 90) THEN "CRITICAL" ELSE "HIGH"
    IN  << GeneratedSQL("OBJECT_IO_ANALYSIS",
               Text("Object-Level IO Analysis", << s.sql_id, io_severity >>,
                    << Io1(s), s.executions >>),
               Text("Identify which objects cause IO wait", << s.sql_id >>,
                    << Io1(s) >>),
               Text("Object-level IO first, plan second", << >>, << Io1(s) >>),
               decision.category, fingerprint),
           GeneratedSQL("SEGMENT_STATISTICS",
               Text("Segment Statistics Analysis", << s.sql_id >>,
                    << Io1(s), Te1(s), s.total_elapsed >>),
               Text("Analyze segment sizes", << s.sql_id >>, << >>),
               Text("Segment analysis reveals candidates", << >>, << >>),
               decision.category, fingerprint) >>
        \o (IF IsAllowed(decision, "PLAN_ANALYSIS")
            THEN << ConfirmationXplan(s, decision.category,
                        "CONFIRMATION STEP: Execution Plan Analysis",
                        "CONFIRM object-level findings",
                        "Now that we know which objects cause IO") >>
            ELSE << >>)
        \o (IF PctGe(s.io_wait_pct, 90) /\ s.executions < 10
            THEN (IF IsAllowed(decision, "SQL_ACCESS_ADVISOR")
                  THEN << GenerateAccessAdvisorIoFocused(s) >>
                  ELSE << >>)
            ELSE IF PctGt(s.io_wait_pct, 70)
            THEN << GeneratedSQL("ADVISOR_DEFERRED",
                        Text("SQL Access Advisor: DEFERRED", << >>,
                             << Io1(s), s.executions >>),
                        Text("Explain why SQL Access Advisor is not run", << >>, << >>),
                        Text("Don't run expensive advisor", << >>, << >>),
                        decision.category, fingerprint) >>
            ELSE << >>)

\* _generate_io_bound_commands_dba_style
GenerateIoBoundCommandsDbaStyle(s, decision) ==
    LET fingerprint == CreateSignalFingerprint(s)
        io_severity == IF PctGt(s.io_wait_pct, 90) THEN "CRITICAL" ELSE "HIGH"
    IN  << GeneratedSQL("OBJECT_IO_ANALYSIS",
               Text("Object-Level IO Analysis", << s.sql_id, io_severity >>,
                    << Io1(s), s.executions >>),
               Text("Identify which objects cause IO wait", << s.sql_id >>,
                    << Io1(s) >>),
               Text("Object-level IO first, plan second", << >>, << Io1(s) >>),
               decision.category, fingerprint),
           GeneratedSQL("SEGMENT_STATISTICS",
               Text("Segment Statistics Analysis", << s.sql_id >>,
                    << Io1(s), Te1(s), s.total_elapsed >>),
               Text("Analyze segment sizes", << s.sql_id >>, << >>),
               Text("Segment analysis reveals candidates", << >>, << >>),
               decision.category, fingerprint) >>
        \o (IF IsAllowed(decision, "PLAN_ANALYSIS")
            THEN << ConfirmationXplan(s, decision.category,
                        "CONFIRMATION STEP: Execution Plan Analysis",
                        "CONFIRM object-level findings",
                        "Now that we know which objects cause IO") >>
            ELSE << >>)
        \o (IF PctGt(s.io_wait_pct, 90) /\ s.executions < 10
            THEN (IF IsAllowed(decision, "SQL_ACCESS_ADVISOR")
                  THEN << GenerateAccessAdvisorIoFocused(s) >>
                  ELSE << >>)
            ELSE IF PctGt(s.io_wait_pct, 70)
            THEN << GeneratedSQL("ADVISOR_DEFERRED",
                        Text("SQL Access Advisor: DEFERRED", << >>,
                             << Io1(s), s.executions >>),
                        Text("Explain why SQL Access Advisor is not run", << >>, << >>),
                        Text("Don't run expensive advisor", << >>, << >>),
                        decision.category, fingerprint) >>
            ELSE << >>)

\* _generate_cpu_bound_commands_dba_style
GenerateCpuBoundCommandsDbaStyle(s, decision) ==
    LET fingerprint == CreateSignalFingerprint(s)
        cpu_severity == IF PctGt(s.cpu_pct, 90) THEN "CRITICAL" ELSE "HIGH"
    IN  << GeneratedSQL("CPU_COST_ANALYSIS",
               Text("Predicate & Join Cost Analysis", << s.sql_id, cpu_severity >>,
                    << Cpu1(s), Io1(s) >>),
               Text("Identify CPU-heavy operations", << s.sql_id >>, << Cpu1(s) >>),
               Text("CPU cost analysis first, not XPLAN", << >>, << Cpu1(s) >>),
               decision.category, fingerprint),
           GeneratedSQL("JOIN_METHOD_ANALYSIS",
               Text("Join Method Analysis", << s.sql_id >>, << Cpu1(s), Ct1(s) >>),
               Text("Analyze join methods", << s.sql_id >>, << Cpu1(s) >>),
               Text("Join method selection is critical", << >>, << >>),
               decision.category, fingerprint) >>
        \o (IF PctGt(s.cpu_pct, 80)
            THEN << GeneratedSQL("CARTESIAN_DETECTION",
                        Text("Cartesian Product Detection", << s.sql_id >>,
                             << Cpu1(s) >>),
                        Text("Detect cartesian products", << s.sql_id >>,
                             << Cpu1(s) >>),
                        Text("Cartesian products are the #1 cause", << >>,
                             << Cpu1(s) >>),
                        decision.category, fingerprint) >>
            ELSE << >>)
        \o (IF IsAllowed(decision, "PLAN_ANALYSIS")
            THEN << ConfirmationXplan(s, decision.category,
                        "CONFIRMATION STEP: Full Plan After Join Analysis",
                        "CONFIRM join analysis findings",
                        "Now that we know which joins are expensive") >>
            ELSE << >>)
        \o (IF IsAllowed(decision, "SQL_TUNING_ADVISOR")
            THEN << GenerateTuningAdvisorCpu(s) >>
            ELSE << >>)

\* Variant of the chatty generator that ends with an execution plan artifact.
GenerateChattySqlCommandsWithXplan(s, decision) ==
    << GeneratedSQL("EXECUTION_FREQUENCY_ANALYSIS",
           Text("Execution Frequency Analysis", << s.sql_id >>,
                << s.executions, AvgMs1(s) >>),
           Text("Analyze execution frequency for chatty SQL", << s.sql_id >>,
                << s.executions >>),
           Text("Query runs fast, problem is executions", << >>,
                << AvgMs1(s), s.executions >>),
           decision.category, CreateSignalFingerprint(s)),
       GenerateDynamicXplan(s, decision.category) >>

\* _generate_chatty_sql_commands_dba_style
GenerateChattySqlCommandsDbaStyle(s, decision) ==
    LET fingerprint == CreateSignalFingerprint(s)
    IN  << GeneratedSQL("EXECUTION_FREQUENCY_ANALYSIS",
               Text("Execution Frequency Analysis", << s.sql_id >>,
                    << s.executions, AvgMs1(s) >>),
               Text("Analyze execution frequency for chatty SQL", << s.sql_id >>,
                    << s.executions >>),
               Text("Query runs fast, problem is executions", << >>,
                    << AvgMs1(s), s.executions >>),
               decision.category, fingerprint),
           GeneratedSQL("CURSOR_EFFICIENCY_CHECK",
               Text("Cursor and Bind Variable Efficiency", << s.sql_id >>,
                    << s.executions >>),
               Text("Check cursor efficiency", << s.sql_id >>, << >>),
               Text("Chatty SQL often has cursor sharing issues", << >>,
                    << s.executions >>),
               decision.category, fingerprint),
           GeneratedSQL("APPLICATION_PATTERN_ANALYSIS",
               Text("Application Calling Pattern", << s.sql_id >>,
                    << s.executions, AvgMs1(s) >>),
               Text("Detect application calling pattern", << s.sql_id >>, << >>),
               Text("This is an APPLICATION issue", << >>,
                    << s.executions, AvgMs1(s) >>),
               decision.category, fingerprint),
           GeneratedSQL("DBA_DECISION_NOTICE",
               Text("XPLAN and Advisors SKIPPED", << >>,
                    << s.executions, AvgMs1(s) >>),
               Text("Explain decision to skip XPLAN and Advisors", << >>, << >>),
               Text("SQL is optimized, executions is an app issue", << >>,
                    << AvgMs1(s), s.executions >>),
               decision.category, fingerprint) >>

\* Variant of the batch generator that emits a bind-variable artifact, as
\* the chatty path of the legacy generator does.
GenerateBatchSqlCommandsWithBindTuning(s, decision) ==
    << GeneratedSQL("PARALLEL_EFFECTIVENESS_CHECK",
           Text("Parallel Execution Effectiveness", << s.sql_id >>,
                << Avg1(s), s.executions, Te1(s) >>),
           Text("Check parallel execution effectiveness", << s.sql_id >>, << >>),
           Text("first check if parallelism is working", << >>, << Avg1(s) >>),
           decision.category, CreateSignalFingerprint(s)),
       GeneratedSQL("BIND_TUNING",
           Text("Bind Variable Analysis", << s.sql_id >>, << s.executions >>),
           Text("Analyze bind variable usage", << s.sql_id >>, << >>),
           Text("Generated because executions", << >>, << s.executions >>),
           "CHATTY_SQL", CreateSignalFingerprint(s)) >>

\* _generate_batch_sql_commands_dba_style
GenerateBatchSqlCommandsDbaStyle(s, decision) ==
    LET fingerprint == CreateSignalFingerprint(s)
        io_status == IF PctGt(s.io_wait_pct, 70) THEN "dominant"
                     ELSE IF PctGt(s.io_wait_pct, 30) THEN "a factor"
                     ELSE "minimal"
        io_explanation == IF PctGt(s.io_wait_pct, 70) THEN "IO is the bottleneck"
                          ELSE "mixed resource usage"
    IN  << GeneratedSQL("PARALLEL_EFFECTIVENESS_CHECK",
               Text("Parallel Execution Effectiveness", << s.sql_id >>,
                    << Avg1(s), s.executions, Te1(s) >>),
               Text("Check parallel execution effectiveness", << s.sql_id >>, << >>),
               Text("first check if parallelism is working", << >>, << Avg1(s) >>),
               decision.category, fingerprint),
           GeneratedSQL("BATCH_WAIT_ANALYSIS",
               Text("Resource Wait Analysis for Batch SQL", << s.sql_id, io_status >>,
                    << Io1(s), Cpu1(s) >>),
               Text("Analyze resource waits for batch SQL", << s.sql_id >>, << >>),
               Text("Batch jobs often hit resource limits", << io_explanation >>,
                    << Io1(s) >>),
               decision.category, fingerprint) >>
        \o (IF IsAllowed(decision, "PLAN_ANALYSIS")
            THEN << GenerateDynamicXplan(s, decision.category) >>
            ELSE << >>)
        \o (IF IsAllowed(decision, "SQL_ACCESS_ADVISOR")
               \/ IsAllowed(decision, "INDEX_REVIEW")
            THEN (IF PctGt(s.io_wait_pct, 90) /\ s.executions < 10
                  THEN << GenerateAccessAdvisorFull(s) >>
                  ELSE IF PctGt(s.io_wait_pct, 70)
                  THEN << GenerateAccessAdvisorIoFocused(s) >>
                  ELSE << GenerateAccessAdvisorLimited(s) >>)
            ELSE << >>)

\* _generate_mixed_profile_commands
GenerateMixedProfileCommands(s, decision) ==
    << GenerateComprehensiveAnalysis(s) >>
    \o (IF PctGt(s.io_wait_pct, 40) THEN << GenerateIndexUsageCheck(s) >> ELSE << >>)
    \o (IF PctGt(s.cpu_pct, 40) THEN << GenerateJoinAnalysis(s) >> ELSE << >>)

\* _generate_monitoring_commands
GenerateMonitoringCommands(s, decision) == << GenerateBaselineMonitoring(s) >>

\* DynamicSQLGenerator.generate_all (the generation log, which no other
\* operation reads, is left out)
generate_all(decision) ==
    LET s == decision.signals
    IN  CASE decision.category = "IO_BOUND_SQL" ->
                GenerateIoBoundCommandsDbaStyle(s, decision)
          [] decision.category = "CPU_BOUND_SQL" ->
                GenerateCpuBoundCommandsDbaStyle(s, decision)
          [] decision.category = "CHATTY_SQL" ->
                GenerateChattySqlCommandsDbaStyle(s, decision)
          [] decision.category = "BATCH_SQL" ->
                GenerateBatchSqlCommandsDbaStyle(s, decision)
          [] decision.category = "MIXED_PROFILE_SQL" ->
                GenerateMixedProfileCommands(s, decision)
          [] decision.category = "LOW_PRIORITY" ->
                GenerateMonitoringCommands(s, decision)
          [] OTHER -> << >>

\* DynamicSQLGenerator.verify_dynamic_generation: the returned dictionary,
\* together with the two command lists it was computed from
verify_dynamic_generation(signals1, signals2, seed) ==
    LET decision1 == evaluate(signals1, seed)
        commands1 == generate_all(decision1)
        decision2 == evaluate(signals2, seed)
        commands2 == generate_all(decision2)
        fingerprint1 == CreateSignalFingerprint(signals1)
        fingerprint2 == CreateSignalFingerprint(signals2)
        sql_text1 == [i \in DOMAIN commands1 |-> commands1[i].sql]
        sql_text2 == [i \in DOMAIN commands2 |-> commands2[i].sql]
        format_diff == fingerprint1 # fingerprint2
        category_diff == decision1.category # decision2.category
        sql_diff == sql_text1 # sql_text2
    IN  [ signals_different     |-> fingerprint1 # fingerprint2,
          categories_different  |-> category_diff,
          sql_text_different    |-> sql_diff,
          fingerprint_1         |-> fingerprint1,
          fingerprint_2         |-> fingerprint2,
          category_1            |-> decision1.category,
          category_2            |-> decision2.category,
          proof_passed          |-> format_diff \/ category_diff \/ sql_diff,
          commands_count_1      |-> Len(commands1),
          commands_count_2      |-> Len(commands2),
          signals1              |-> signals1,
          signals2              |-> signals2,
          commands1             |-> commands1,
          commands2             |-> commands2 ]

\* ========================================================================
\* The decision engine and the generator as a state machine
\* ========================================================================
MaxSeed == 2

\* class NormalizedSignals: the values the engine is driven with
ExecutionsDomain == {5, 10, 50, 200, 1000, 1500}
AvgExecTimeDomain == {1, 2, AvgDen \div 2, 5 * AvgDen, 12 * AvgDen}
CpuPctDomain == {10 * PctDen, 10 * PctDen + 1, 45 * PctDen, 70 * PctDen,
                 75 * PctDen, 95 * PctDen}
IoWaitPctDomain == {10 * PctDen, 30 * PctDen, 45 * PctDen, 70 * PctDen,
                    75 * PctDen, 90 * PctDen, 95 * PctDen}
DbTimePctDomain == {5 * PctDen, 15 * PctDen}
TotalElapsedDomain == {60, 600}

NormalizedSignals ==
    [ sql_id        : {"sql1"},
      executions    : ExecutionsDomain,
      avg_exec_time : AvgExecTimeDomain,
      cpu_pct       : CpuPctDomain,
      io_wait_pct   : IoWaitPctDomain,
      db_time_pct   : DbTimePctDomain,
      total_elapsed : TotalElapsedDomain,
      cpu_time      : {20} ]

\* signals with the same sql_id that differ from s in exactly one of the
\* four fields the generator is driven by
Variants(s) ==
       {[s EXCEPT !.executions = v] : v \in ExecutionsDomain \ {s.executions}}
    \cup {[s EXCEPT !.avg_exec_time = v] :
              v \in AvgExecTimeDomain \ {s.avg_exec_time}}
    \cup {[s EXCEPT !.cpu_pct = v] : v \in CpuPctDomain \ {s.cpu_pct}}
    \cup {[s EXCEPT !.io_wait_pct = v] : v \in IoWaitPctDomain \ {s.io_wait_pct}}

VARIABLES
    signals,     \* the NormalizedSignals handed to the engine
    decision,    \* << >> or << the DecisionResult returned by evaluate >>
    generated,   \* the list returned by generate_all
    proof,       \* << >> or << the result of verify_dynamic_generation >>
    pc,          \* "idle", "evaluated", "generated" or "verified"
    top_sql,                   \* the rows handed to analyze_workload
    wait_events,               \* the wait events handed to analyze_workload
    data_integrity_validator,  \* << >> (None) or << the validator >>
    last_validation_result,    \* << >> (None) or << the last result >>
    problematic_sql,           \* self.problematic_sql
    ignored_sql,               \* self.ignored_sql
    envelope,                  \* << >> or << what analyze_workload returned >>
    epc,                       \* "ready" or "returned"
    hash_seed,          \* the string hash seed of the running process
    apc,                \* the position of the request inside analyze_workload
    local_workload_analysis,  \* local of analyze_workload: << >> or << it >>
    local_problematic_items,  \* local of analyze_workload: the shortlist
    local_dba_findings,       \* local of analyze_workload: the findings so far
    stages,             \* the stages the request has gone through, in order
    run_no,             \* the number of requests started on the workspace
    first_envelope,     \* << >> or << what the first request returned >>
    raw_html,           \* per workspace: the files of its raw_html directory
    parsed_csv,         \* per workspace: the files of its parsed_csv directory
    metrics_cache,      \* _metrics_cache: workspace path -> calculator
    ingestions,         \* per workspace: the number of uploads it has received
    computations,       \* per workspace: the number of times the metrics of
                        \* its present bundle have been computed from the tables
    last_clear,         \* the call of clear_metrics_cache the last operation
                        \* made, if it made one
    parsing_results,    \* per workspace: parsing_results of its last upload
    high_load_periods,  \* per workspace: high_load_periods of the last
                        \* response of /upload or /results
    threads,            \* per thread: the accessor call it is inside of
    heap,               \* the calculators constructed by the threads
    metrics_cache_refs  \* _metrics_cache as the threads see it: path -> object

genVars == << signals, decision, generated, proof, pc >>

expertVars == << top_sql, wait_events, data_integrity_validator,
                 last_validation_result, problematic_sql, ignored_sql,
                 envelope, epc >>

pipeVars == << hash_seed, apc, local_workload_analysis,
               local_problematic_items, local_dba_findings, stages, run_no,
               first_envelope >>

wsVars == << raw_html, parsed_csv, metrics_cache, ingestions, computations,
             last_clear, parsing_results, high_load_periods >>

thVars == << threads, heap, metrics_cache_refs >>

otherVars == << pipeVars, wsVars, thVars >>

vars == << genVars, expertVars, otherVars >>

\* no request is inside analyze_workload step by step
PipeIdle ==
    /\ hash_seed = 0
    /\ apc = "idle"
    /\ local_workload_analysis = << >>
    /\ local_problematic_items = << >>
    /\ local_dba_findings = << >>
    /\ stages = << >>
    /\ run_no = 0
    /\ first_envelope = << >>

\* get_user_paths: the parsed_csv directories of the users, which name their
\* workspaces
Workspaces == {"data/users/alice/parsed_csv", "data/users/bob/parsed_csv"}

NumThreads == 2

Threads == 1 .. NumThreads

\* _metrics_cache = {}
EmptyCache == [k \in {} |-> << >>]

\* the last operation made no call of clear_metrics_cache
NoClear == [called |-> FALSE, csv_dir |-> << >>, hit |-> FALSE]

\* empty workspaces, an empty cache and no response yet
WsIdle ==
    /\ raw_html = [ws \in Workspaces |-> {}]
    /\ parsed_csv = [ws \in Workspaces |-> {}]
    /\ metrics_cache = EmptyCache
    /\ ingestions = [ws \in Workspaces |-> 0]
    /\ computations = [ws \in Workspaces |-> 0]
    /\ last_clear = NoClear
    /\ parsing_results = [ws \in Workspaces |-> {}]
    /\ high_load_periods = [ws \in Workspaces |-> << >>]

IdleThread ==
    [ pc |-> "idle", op |-> "none", csv_dir |-> << >>, force_refresh |-> FALSE,
      ref |-> 0, evicted |-> FALSE ]

\* no thread is inside a cache accessor
ThIdle ==
    /\ threads = [t \in Threads |-> IdleThread]
    /\ heap = << >>
    /\ metrics_cache_refs = EmptyCache

OthersIdle == PipeIdle /\ WsIdle /\ ThIdle

\* the orchestrator, constructed and not in use
ExpertIdle ==
    /\ top_sql = << >>
    /\ wait_events = << >>
    /\ data_integrity_validator = << >>
    /\ last_validation_result = << >>
    /\ problematic_sql = << >>
    /\ ignored_sql = << >>
    /\ envelope = << >>
    /\ epc = "ready"

GenInit ==
    /\ signals \in NormalizedSignals
    /\ decision = << >>
    /\ generated = << >>
    /\ proof = << >>
    /\ pc = "idle"
    /\ ExpertIdle
    /\ OthersIdle

\* decision = engine.evaluate(signals)
Evaluate ==
    /\ pc = "idle"
    /\ \E seed \in 0 .. MaxSeed - 1 :
           decision' = << evaluate(signals, seed) >>
    /\ pc' = "evaluated"
    /\ UNCHANGED << signals, generated, proof >>
    /\ UNCHANGED << expertVars, otherVars >>

\* generated = generator.generate_all(decision)
GenerateAll ==
    /\ pc = "evaluated"
    /\ generated' = generate_all(decision[1])
    /\ pc' = "generated"
    /\ UNCHANGED << signals, decision, proof >>
    /\ UNCHANGED << expertVars, otherVars >>

\* proof = generator.verify_dynamic_generation(signals, signals2, engine)
VerifyDynamicGeneration ==
    /\ pc = "idle"
    /\ \E signals2 \in Variants(signals), seed \in 0 .. MaxSeed - 1 :
           proof' = << verify_dynamic_generation(signals, signals2, seed) >>
    /\ pc' = "verified"
    /\ UNCHANGED << signals, decision, generated >>
    /\ UNCHANGED << expertVars, otherVars >>

GenNext == Evaluate \/ GenerateAll \/ VerifyDynamicGeneration

SpecGen == GenInit /\ [][GenNext]_vars

\* ========================================================================
\* engine/dba_expert_engine.py
\* ========================================================================
\* A row of top_sql is a record with the fields _filter_problematic_sql reads:
\* sql_id, elapsed and cpu (seconds), executions, elapsed_per_exec (units of
\* 1/AvgDen s), pcttotal, pctcpu and pctio (units of 1/PctDen percent).

\* thresholds of class DBAExpertEngine
CRITICAL_ELAPSED_TIME == 30
HIGH_ELAPSED_TIME == 10
CRITICAL_CPU_TIME == 20
HIGH_CPU_TIME == 5
CRITICAL_EXECUTIONS == 500
MEDIUM_EXECUTIONS == 50
CRITICAL_WORKLOAD_PCT == 15
HIGH_WORKLOAD_PCT == 5
CRITICAL_AVG_ELAPSED == <<1, 1>>
MEDIUM_AVG_ELAPSED == <<1, 10>>
HIGH_CPU_PERCENTAGE == 50
MEDIUM_CPU_PERCENTAGE == 30

\* The eight criteria of _filter_problematic_sql, in the order the code runs
\* them.  Each takes the severity so far and returns the severity after it.
SeverityAfterElapsed(sql, severity) ==
    IF sql.elapsed >= CRITICAL_ELAPSED_TIME THEN "HIGH"
    ELSE IF sql.elapsed >= HIGH_ELAPSED_TIME THEN "MEDIUM"
    ELSE severity

SeverityAfterExecutions(sql, severity) ==
    IF sql.executions >= CRITICAL_EXECUTIONS
        THEN (IF severity = "NONE" THEN "HIGH" ELSE severity)
    ELSE IF sql.executions >= MEDIUM_EXECUTIONS /\ sql.elapsed > 10
        THEN (IF severity = "NONE" THEN "MEDIUM" ELSE severity)
    ELSE severity

SeverityAfterAvgElapsed(sql, severity) ==
    IF AvgGe(sql.elapsed_per_exec, CRITICAL_AVG_ELAPSED)
        THEN (IF severity # "HIGH" THEN "HIGH" ELSE severity)
    ELSE IF AvgGe(sql.elapsed_per_exec, MEDIUM_AVG_ELAPSED) /\ sql.executions > 50
        THEN (IF severity = "NONE" THEN "MEDIUM" ELSE severity)
    ELSE severity

SeverityAfterCpuPct(sql, severity) ==
    IF PctGe(sql.pctcpu, HIGH_CPU_PERCENTAGE)
        THEN (IF severity # "HIGH" THEN "HIGH" ELSE severity)
    ELSE IF PctGe(sql.pctcpu, MEDIUM_CPU_PERCENTAGE)
        THEN (IF severity = "NONE" THEN "MEDIUM" ELSE severity)
    ELSE severity

SeverityAfterWorkloadPct(sql, severity) ==
    IF PctGe(sql.pcttotal, CRITICAL_WORKLOAD_PCT) THEN "HIGH"
    ELSE IF PctGe(sql.pcttotal, HIGH_WORKLOAD_PCT)
        THEN (IF severity = "NONE" THEN "MEDIUM" ELSE severity)
    ELSE severity

SeverityAfterIoWait(sql, severity) ==
    IF PctGe(sql.pctio, 40)
        THEN (IF severity = "NONE" THEN "MEDIUM" ELSE severity)
    ELSE severity

SeverityAfterCpuTime(sql, severity) ==
    IF sql.cpu >= CRITICAL_CPU_TIME THEN "HIGH"
    ELSE IF sql.cpu >= HIGH_CPU_TIME /\ sql.elapsed > 30
        THEN (IF severity = "NONE" THEN "MEDIUM" ELSE severity)
    ELSE severity

\* the severity a row ends with
RowSeverity(sql) ==
    SeverityAfterCpuTime(sql,
      SeverityAfterIoWait(sql,
        SeverityAfterWorkloadPct(sql,
          SeverityAfterCpuPct(sql,
            SeverityAfterAvgElapsed(sql,
              SeverityAfterExecutions(sql,
                SeverityAfterElapsed(sql, "NONE")))))))

\* problem_reasons: the tag of every criterion branch the row enters
ProblemReasons(sql) ==
       (IF sql.elapsed >= CRITICAL_ELAPSED_TIME THEN << "HIGH_ELAPSED" >>
        ELSE IF sql.elapsed >= HIGH_ELAPSED_TIME THEN << "MEDIUM_ELAPSED" >>
        ELSE << >>)
    \o (IF sql.executions >= CRITICAL_EXECUTIONS THEN << "HIGH_FREQUENCY" >>
        ELSE IF sql.executions >= MEDIUM_EXECUTIONS /\ sql.elapsed > 10
            THEN << "MEDIUM_FREQUENCY" >>
        ELSE << >>)
    \o (IF AvgGe(sql.elapsed_per_exec, CRITICAL_AVG_ELAPSED)
            THEN << "SLOW_EXECUTION" >>
        ELSE IF AvgGe(sql.elapsed_per_exec, MEDIUM_AVG_ELAPSED)
                /\ sql.executions > 50
            THEN << "SLOW_AVG_EXEC" >>
        ELSE << >>)
    \o (IF PctGe(sql.pctcpu, HIGH_CPU_PERCENTAGE) THEN << "HIGH_CPU_PCT" >>
        ELSE IF PctGe(sql.pctcpu, MEDIUM_CPU_PERCENTAGE)
            THEN << "MEDIUM_CPU_PCT" >>
        ELSE << >>)
    \o (IF PctGe(sql.pcttotal, CRITICAL_WORKLOAD_PCT)
            THEN << "DOMINANT_WORKLOAD" >>
        ELSE IF PctGe(sql.pcttotal, HIGH_WORKLOAD_PCT)
            THEN << "HIGH_WORKLOAD_IMPACT" >>
        ELSE << >>)
    \o (IF PctGe(sql.pctio, 40) THEN << "HIGH_IO_WAIT" >> ELSE << >>)
    \o (IF sql.cpu >= CRITICAL_CPU_TIME THEN << "CRITICAL_CPU" >>
        ELSE IF sql.cpu >= HIGH_CPU_TIME /\ sql.elapsed > 30
            THEN << "HIGH_CPU" >>
        ELSE << >>)

\* is_problematic: some criterion branch was entered
IsProblematic(sql) == ProblemReasons(sql) # << >>

\* _calculate_dba_score, in hundredths (the value is round(score, 2)):
\*   40*elapsed + 50*cpu + 100*pcttotal + min(executions/5, 1000)
\*   + min(250*elapsed_per_exec, 500)
\* The integer parts of the terms are added separately from the fractional
\* parts, which are brought to the common denominator 5*PctDen*AvgDen.
CalculateDbaScore(elapsed, cpu, executions, pcttotal, elapsed_per_exec) ==
    LET den == 5 * PctDen * AvgDen
        q3 == (pcttotal * 100) \div PctDen
        r3 == (pcttotal * 100) % PctDen
        capped4 == executions >= 5000
        q4 == IF capped4 THEN 1000 ELSE executions \div 5
        r4 == IF capped4 THEN 0 ELSE executions % 5
        capped5 == elapsed_per_exec >= 2 * AvgDen
        q5 == IF capped5 THEN 500 ELSE (elapsed_per_exec * 250) \div AvgDen
        r5 == IF capped5 THEN 0 ELSE (elapsed_per_exec * 250) % AvgDen
        frac == r3 * (5 * AvgDen) + r4 * (PctDen * AvgDen) + r5 * (5 * PctDen)
        whole == 40 * elapsed + 50 * cpu + q3 + q4 + q5 + (frac \div den)
        rem == frac % den
    IN  IF 2 * rem < den THEN whole
        ELSE IF 2 * rem > den THEN whole + 1
        ELSE IF whole % 2 = 0 THEN whole ELSE whole + 1

\* the entry appended to problematic for a row that met a criterion
ProblematicItem(sql) ==
    [ sql_id          |-> sql.sql_id,
      metrics         |-> sql,
      problem_reasons |-> ProblemReasons(sql),
      severity        |-> RowSeverity(sql),
      dba_score       |-> CalculateDbaScore(sql.elapsed, sql.cpu, sql.executions,
                                            sql.pcttotal, sql.elapsed_per_exec) ]

\* list.sort(key=dba_score, reverse=True): a stable sort, so items with equal
\* scores keep their relative order
RECURSIVE InsertByScore(_, _)
InsertByScore(sorted, item) ==
    IF sorted = << >> THEN << item >>
    ELSE IF Head(sorted).dba_score >= item.dba_score
        THEN << Head(sorted) >> \o InsertByScore(Tail(sorted), item)
    ELSE << item >> \o sorted

RECURSIVE SortByScore(_)
SortByScore(items) ==
    IF items = << >> THEN << >>
    ELSE InsertByScore(SortByScore(SubSeq(items, 1, Len(items) - 1)),
                       items[Len(items)])

\* Variant of the cut-off that returns every problematic row.
MaxReturnUncapped(problematic) == Len(problematic)

\* the number of items _filter_problematic_sql returns from the sorted,
\* non-empty list
MaxReturn(problematic) ==
    LET m0 == Min(3, Len(problematic))
        m1 == IF m0 = 3 /\ 10 * problematic[3].dba_score
                              < 4 * problematic[1].dba_score
              THEN 2 ELSE m0
        high_severity_count ==
            Cardinality({i \in 1 .. m1 :
                problematic[i].severity \in {"HIGH", "CRITICAL"}})
    IN  IF m1 > 1 /\ high_severity_count = 1
           /\ problematic[2].severity \notin {"HIGH", "MEDIUM", "CRITICAL"}
        THEN 1 ELSE m1

\* _filter_problematic_sql: the values it leaves in self.problematic_sql
\* (which it returns) and self.ignored_sql
FilterProblematicSql(rows) ==
    LET problematic ==
            SortByScore([i \in DOMAIN SelectSeq(rows, IsProblematic) |->
                ProblematicItem(SelectSeq(rows, IsProblematic)[i])])
    IN  IF Len(problematic) = 0
        THEN [problematic_sql |-> << >>, ignored_sql |-> << >>]
        ELSE LET max_return == MaxReturn(problematic)
             IN  [problematic_sql |-> SubSeq(problematic, 1, max_return),
                  ignored_sql |-> SubSeq(problematic, max_return + 1,
                                         Len(problematic))]

\* _classify_workload_pattern (ash_analysis is not read by it)
ClassifyWorkloadPattern(total_elapsed, total_cpu, total_executions, dominant_wait) ==
    IF total_elapsed > 500
        THEN (IF total_cpu > 200 THEN "CPU_INTENSIVE_HEAVY_LOAD"
              ELSE "IO_INTENSIVE_HEAVY_LOAD")
    ELSE IF total_executions > 10000 THEN "HIGH_FREQUENCY_WORKLOAD"
    ELSE IF dominant_wait # << >> /\ dominant_wait[1].pct_db_time > 30
        THEN "WAIT_EVENT_DOMINATED"
    ELSE "MODERATE_WORKLOAD"

RECURSIVE SumOf(_, _)
SumOf(rows, field) ==
    IF rows = << >> THEN 0 ELSE rows[1][field] + SumOf(Tail(rows), field)

\* _analyze_workload_patterns
AnalyzeWorkloadPatterns(rows, waits) ==
    IF rows = << >>
    THEN [ pattern |-> "NO_SIGNIFICANT_WORKLOAD", total_elapsed |-> 0,
           total_cpu |-> 0, total_executions |-> 0, dominant_wait |-> << >> ]
    ELSE LET total_elapsed == SumOf(rows, "elapsed")
             total_cpu == SumOf(rows, "cpu")
             total_executions == SumOf(rows, "executions")
             dominant_wait ==
                 IF waits # << >>
                 THEN << [ event |-> waits[1].statistic_name,
                           pct_db_time |-> waits[1].pct_of_db_time ] >>
                 ELSE << >>
         IN  [ pattern |-> ClassifyWorkloadPattern(total_elapsed, total_cpu,
                               total_executions, dominant_wait),
               total_elapsed |-> total_elapsed,
               total_cpu |-> total_cpu,
               total_executions |-> total_executions,
               dominant_wait |-> dominant_wait ]

\* _perform_deep_dba_analysis: the identifying fields of a finding (the prose
\* fields built from the same item are left out)
PerformDeepDbaAnalysis(item) ==
    [ sql_id             |-> item.sql_id,
      severity           |-> item.severity,
      dba_priority_score |-> item.dba_score,
      risk_level         |-> item.severity ]

\* DataIntegrityValidator.validate_data_integrity: a violation list, and
\* is_valid exactly when the list is empty
ValidateDataIntegrity(validator) ==
    [ is_valid   |-> validator.violations = << >>,
      violations |-> validator.violations ]

\* Variant of the INVALID envelope that carries a finding.
InvalidEnvelopeWithFinding(validation_result) ==
    [ status                   |-> "INVALID",
      error_type               |-> "DATA_INTEGRITY_FAILURE",
      violations               |-> validation_result.violations,
      workload_summary         |-> << >>,
      problematic_count        |-> 1,
      problematic_sql_findings |->
          << [ sql_id |-> "SQL_1", severity |-> "HIGH",
               dba_priority_score |-> 0, risk_level |-> "HIGH" ] >> ]

\* the envelope analyze_workload returns when validation fails
InvalidEnvelope(validation_result) ==
    [ status                   |-> "INVALID",
      error_type               |-> "DATA_INTEGRITY_FAILURE",
      violations               |-> validation_result.violations,
      workload_summary         |-> << >>,
      problematic_count        |-> 0,
      problematic_sql_findings |-> << >> ]

\* the envelope analyze_workload returns after the analysis
SuccessEnvelope(workload_analysis, dba_findings) ==
    [ status                   |-> "SUCCESS",
      workload_summary         |-> << workload_analysis >>,
      problematic_count        |-> Len(dba_findings),
      problematic_sql_findings |-> dba_findings ]

\* ------------------------------------------------------------------------
\* The orchestrator as a state machine
\* ------------------------------------------------------------------------
MaxRows == 4

\* metrics of a row (sql_id is added by position)
ElapsedDomain == {5, 15, 35}
CpuDomain == {0, 6, 25}
RowExecutionsDomain == {10, 60, 600}
ElapsedPerExecDomain == {0, AvgDen \div 2, 2 * AvgDen}
PctTotalDomain == {1 * PctDen, 8 * PctDen, 20 * PctDen}
PctCpuDomain == {10 * PctDen, 35 * PctDen, 60 * PctDen}
PctIoDomain == {10 * PctDen, 45 * PctDen}

RowMetrics ==
    [ elapsed          : ElapsedDomain,
      cpu              : CpuDomain,
      executions       : RowExecutionsDomain,
      elapsed_per_exec : ElapsedPerExecDomain,
      pcttotal         : PctTotalDomain,
      pctcpu           : PctCpuDomain,
      pctio            : PctIoDomain ]

Row(id, r) ==
    [ sql_id |-> id, elapsed |-> r.elapsed, cpu |-> r.cpu,
      executions |-> r.executions, elapsed_per_exec |-> r.elapsed_per_exec,
      pcttotal |-> r.pcttotal, pctcpu |-> r.pctcpu, pctio |-> r.pctio ]

SqlId(i) == << "SQL_1", "SQL_2", "SQL_3", "SQL_4", "SQL_5" >>[i]

\* rows that workloads of several rows are built from
RowPool ==
    { [elapsed |-> 35, cpu |-> 25, executions |-> 600,
       elapsed_per_exec |-> 2 * AvgDen, pcttotal |-> 20 * PctDen,
       pctcpu |-> 60 * PctDen, pctio |-> 45 * PctDen],
      [elapsed |-> 35, cpu |-> 6, executions |-> 60,
       elapsed_per_exec |-> AvgDen \div 2, pcttotal |-> 8 * PctDen,
       pctcpu |-> 35 * PctDen, pctio |-> 10 * PctDen],
      [elapsed |-> 15, cpu |-> 0, executions |-> 600,
       elapsed_per_exec |-> 0, pcttotal |-> 1 * PctDen,
       pctcpu |-> 10 * PctDen, pctio |-> 10 * PctDen],
      [elapsed |-> 5, cpu |-> 0, executions |-> 10,
       elapsed_per_exec |-> 0, pcttotal |-> 1 * PctDen,
       pctcpu |-> 10 * PctDen, pctio |-> 45 * PctDen],
      [elapsed |-> 5, cpu |-> 0, executions |-> 10,
       elapsed_per_exec |-> 0, pcttotal |-> 1 * PctDen,
       pctcpu |-> 10 * PctDen, pctio |-> 10 * PctDen] }

\* the rows that equal r except for a larger elapsed, pctcpu or executions
Raised(r) ==
       {[r EXCEPT !.elapsed = v] : v \in {x \in ElapsedDomain : x > r.elapsed}}
    \cup {[r EXCEPT !.pctcpu = v] : v \in {x \in PctCpuDomain : x > r.pctcpu}}
    \cup {[r EXCEPT !.executions = v] :
              v \in {x \in RowExecutionsDomain : x > r.executions}}

\* the workloads: up to MaxRows rows of the pool, and every pair of a row with
\* one of its raised rows
Workloads ==
       UNION {[1 .. n -> RowPool] : n \in 0 .. MaxRows}
    \cup UNION {{<< r, q >> : q \in Raised(r)} : r \in RowMetrics}

WaitEventsDomain ==
    { << >>,
      << [statistic_name |-> "db file sequential read",
          pct_of_db_time |-> 40] >> }

\* reports of the validator for the workspace: none, or one of these lists
ViolationsDomain ==
    { << >>, << "STALE_CSV" >>, << "WORKSPACE_MISSING", "REQUIRED_TABLE_MISSING" >> }

ExpertInit ==
    /\ \E w \in Workloads : top_sql = [i \in DOMAIN w |-> Row(SqlId(i), w[i])]
    /\ wait_events \in WaitEventsDomain
    /\ data_integrity_validator \in
           {<< >>} \cup {<< [violations |-> v] >> : v \in ViolationsDomain}
    /\ last_validation_result = << >>
    /\ problematic_sql = << >>
    /\ ignored_sql = << >>
    /\ envelope = << >>
    /\ epc = "ready"
    /\ signals = CHOOSE s \in NormalizedSignals : TRUE
    /\ decision = << >>
    /\ generated = << >>
    /\ proof = << >>
    /\ pc = "idle"
    /\ OthersIdle

\* analyze_workload(top_sql, raw_sql, wait_events, ash_analysis)
AnalyzeWorkload ==
    /\ epc = "ready"
    /\ LET validated == data_integrity_validator # << >>
           validation_result ==
               ValidateDataIntegrity(data_integrity_validator[1])
       IN  IF validated /\ ~validation_result.is_valid
           THEN /\ last_validation_result' = << validation_result >>
                /\ envelope' = << InvalidEnvelope(validation_result) >>
                /\ UNCHANGED << problematic_sql, ignored_sql >>
           ELSE LET workload_analysis ==
                        AnalyzeWorkloadPatterns(top_sql, wait_events)
                    filtered == FilterProblematicSql(top_sql)
                    problematic_items == filtered.problematic_sql
                    dba_findings ==
                        [i \in DOMAIN problematic_items |->
                            PerformDeepDbaAnalysis(problematic_items[i])]
                IN  /\ last_validation_result' =
                           IF validated THEN << validation_result >>
                           ELSE last_validation_result
                    /\ problematic_sql' = filtered.problematic_sql
                    /\ ignored_sql' = filtered.ignored_sql
                    /\ envelope' =
                           << SuccessEnvelope(workload_analysis, dba_findings) >>
    /\ epc' = "returned"
    /\ UNCHANGED << top_sql, wait_events, data_integrity_validator >>
    /\ UNCHANGED << genVars, otherVars >>

ExpertNext == AnalyzeWorkload

SpecExpert == ExpertInit /\ [][ExpertNext]_vars

\* ------------------------------------------------------------------------
\* analyze_workload step by step, as RCAEngine.run calls it on a workspace
\* ------------------------------------------------------------------------
MaxRuns == 2
MaxPipeRows == 2

\* elapsed / executions if executions > 0 else 0 (units of 1/AvgDen s)
ElapsedPerExec(elapsed, executions) ==
    IF executions > 0 THEN (elapsed * AvgDen) \div executions ELSE 0

\* _generate_dynamic_recommendations: the NormalizedSignals block it builds
\* from the metrics of an item (every value is taken over as it is)
SignalsFromMetrics(sql_id, metrics) ==
    [ sql_id        |-> sql_id,
      executions    |-> metrics.executions,
      total_elapsed |-> metrics.elapsed,
      avg_exec_time |-> ElapsedPerExec(metrics.elapsed, metrics.executions),
      cpu_time      |-> metrics.cpu,
      cpu_pct       |-> metrics.pctcpu,
      io_wait_pct   |-> metrics.pctio,
      db_time_pct   |-> metrics.pcttotal ]

\* SignalNormalizer.normalize_from_rca on a row that has every metric as a
\* number ("x or 0" is x then, 0 for a zero); sql_text, sql_module and
\* wait_class are context that no gate reads
NormalizeFromRca(sql_data) ==
    LET executions == sql_data.executions
        total_elapsed == sql_data.elapsed
        cpu_time == sql_data.cpu
        avg_exec_time ==
            IF executions > 0 /\ total_elapsed > 0
            THEN (total_elapsed * AvgDen) \div executions
            ELSE sql_data.elapsed_per_exec
        cpu_pct ==
            IF sql_data.pctcpu = 0 /\ total_elapsed > 0 /\ cpu_time > 0
            THEN (cpu_time * 100 * PctDen) \div total_elapsed
            ELSE sql_data.pctcpu
        non_cpu_time == IF total_elapsed - cpu_time > 0
                        THEN total_elapsed - cpu_time ELSE 0
        io_wait_pct ==
            IF sql_data.pctio = 0 /\ total_elapsed > 0 /\ cpu_time >= 0
            THEN (non_cpu_time * 100 * PctDen) \div total_elapsed
            ELSE sql_data.pctio
    IN  [ sql_id        |-> sql_data.sql_id,
          executions    |-> executions,
          total_elapsed |-> total_elapsed,
          avg_exec_time |-> avg_exec_time,
          cpu_time      |-> cpu_time,
          cpu_pct       |-> cpu_pct,
          io_wait_pct   |-> io_wait_pct,
          db_time_pct   |-> sql_data.pcttotal ]

\* _generate_task_suffix: int(x) raises ValueError for a nan
GenerateTaskSuffixRaises(s) ==
    s.io_wait_pct = NaN \/ s.cpu_pct = NaN \/ s.total_elapsed = NaN

\* the artifacts whose generators call _generate_task_suffix
AdvisorActions ==
    {"SQL_ACCESS_ADVISOR", "SQL_ACCESS_ADVISOR_LIMITED", "SQL_TUNING_ADVISOR"}

\* generate_all raises instead of returning: its route reaches a generator
\* that calls _generate_task_suffix, and that call raises
GenerateAllRaises(d) ==
    /\ GenerateTaskSuffixRaises(d.signals)
    /\ \E i \in DOMAIN generate_all(d) : generate_all(d)[i].action \in AdvisorActions

\* _format_next_steps: the category header, one block per generated command,
\* and the reasons of the blocked actions when there are blocked actions
FormatNextSteps(d, generated_sql) ==
    [ header   |-> d.category,
      commands |-> [i \in DOMAIN generated_sql |->
                       [ action      |-> generated_sql[i].action,
                         intent      |-> generated_sql[i].intent,
                         sql         |-> generated_sql[i].sql,
                         explanation |-> generated_sql[i].explanation ]],
      not_recommended |-> IF d.blocked_actions # << >> /\ d.why_hidden # << >>
                          THEN d.why_hidden ELSE << >> ]

\* _generate_dynamic_recommendations: the evidence-driven fields of the
\* dictionary it returns
DynamicRecommendations(d, generated_sql) ==
    [ what_dba_should_do_next |-> FormatNextSteps(d, generated_sql),
      sql_category            |-> d.category,
      allowed_actions         |-> d.allowed_actions,
      blocked_actions         |-> d.blocked_actions,
      why_shown               |-> d.why_shown,
      why_hidden              |-> d.why_hidden ]

\* _perform_deep_dba_analysis: the finding with its recommendations
FindingResult(item, dba_recommendations) ==
    PerformDeepDbaAnalysis(item)
        @@ ("dba_recommendations" :> dba_recommendations)

\* rows of the workloads a request is run on
PipeRowPool ==
    { [elapsed |-> 40, cpu |-> 25, executions |-> 640,
       elapsed_per_exec |-> AvgDen \div 16, pcttotal |-> 20 * PctDen,
       pctcpu |-> 60 * PctDen, pctio |-> 45 * PctDen],
      [elapsed |-> 60, cpu |-> 6, executions |-> 10,
       elapsed_per_exec |-> 6 * AvgDen, pcttotal |-> 8 * PctDen,
       pctcpu |-> 35 * PctDen, pctio |-> 10 * PctDen],
      [elapsed |-> 60, cpu |-> 6, executions |-> 10,
       elapsed_per_exec |-> 6 * AvgDen, pcttotal |-> 8 * PctDen,
       pctcpu |-> 35 * PctDen, pctio |-> NaN],
      [elapsed |-> 40, cpu |-> 25, executions |-> 640,
       elapsed_per_exec |-> AvgDen \div 16, pcttotal |-> 20 * PctDen,
       pctcpu |-> 150 * PctDen, pctio |-> 10 * PctDen],
      [elapsed |-> 40, cpu |-> 6, executions |-> 640,
       elapsed_per_exec |-> AvgDen \div 16, pcttotal |-> 8 * PctDen,
       pctcpu |-> 35 * PctDen, pctio |-> 95 * PctDen],
      [elapsed |-> 5, cpu |-> 0, executions |-> 10,
       elapsed_per_exec |-> 0, pcttotal |-> 1 * PctDen,
       pctcpu |-> 10 * PctDen, pctio |-> 10 * PctDen] }

PipeWorkloads == UNION {[1 .. n -> PipeRowPool] : n \in 1 .. MaxPipeRows}

PipeInit ==
    /\ \E w \in PipeWorkloads :
           top_sql = [i \in DOMAIN w |-> Row(SqlId(i), w[i])]
    /\ wait_events = << >>
    /\ data_integrity_validator \in
           {<< >>} \cup {<< [violations |-> v] >> : v \in ViolationsDomain}
    /\ last_validation_result = << >>
    /\ problematic_sql = << >>
    /\ ignored_sql = << >>
    /\ envelope = << >>
    /\ epc = "ready"
    /\ hash_seed \in 0 .. MaxSeed - 1
    /\ apc = "idle"
    /\ local_workload_analysis = << >>
    /\ local_problematic_items = << >>
    /\ local_dba_findings = << >>
    /\ stages = << >>
    /\ run_no = 0
    /\ first_envelope = << >>
    /\ signals = CHOOSE s \in NormalizedSignals : TRUE
    /\ decision = << >>
    /\ generated = << >>
    /\ proof = << >>
    /\ pc = "idle"
    /\ WsIdle
    /\ ThIdle

\* RCAEngine.run: a DBAExpertEngine is constructed for the request and
\* analyze_workload is called on it
StartRequest ==
    /\ apc \in {"idle", "returned"}
    /\ run_no < MaxRuns
    /\ run_no' = run_no + 1
    /\ first_envelope' = IF run_no = 1 THEN envelope ELSE first_envelope
    /\ last_validation_result' = << >>
    /\ problematic_sql' = << >>
    /\ ignored_sql' = << >>
    /\ envelope' = << >>
    /\ local_workload_analysis' = << >>
    /\ local_problematic_items' = << >>
    /\ local_dba_findings' = << >>
    /\ stages' = << >>
    /\ apc' = "called"
    /\ UNCHANGED << top_sql, wait_events, data_integrity_validator, epc,
                    hash_seed >>
    /\ UNCHANGED << genVars, wsVars, thVars >>

\* the server process is started again between two requests: the string hash
\* seed of the new process is another one
RestartProcess ==
    /\ apc = "returned"
    /\ run_no < MaxRuns
    /\ \E seed \in (0 .. MaxSeed - 1) \ {hash_seed} : hash_seed' = seed
    /\ UNCHANGED << apc, local_workload_analysis, local_problematic_items,
                    local_dba_findings, stages, run_no, first_envelope >>
    /\ UNCHANGED << genVars, expertVars, wsVars, thVars >>

\* STEP 0 of analyze_workload: the validation, when the engine has a validator
ValidateStep ==
    /\ apc = "called"
    /\ IF data_integrity_validator # << >>
       THEN LET validation_result ==
                    ValidateDataIntegrity(data_integrity_validator[1])
            IN  /\ stages' = Append(stages, "validate_data_integrity")
                /\ last_validation_result' = << validation_result >>
                /\ IF ~validation_result.is_valid
                   THEN /\ envelope' = << InvalidEnvelope(validation_result) >>
                        /\ apc' = "returned"
                   ELSE /\ apc' = "validated"
                        /\ UNCHANGED envelope
       ELSE /\ apc' = "validated"
            /\ UNCHANGED << stages, last_validation_result, envelope >>
    /\ UNCHANGED << top_sql, wait_events, data_integrity_validator,
                    problematic_sql, ignored_sql, epc >>
    /\ UNCHANGED << hash_seed, local_workload_analysis,
                    local_problematic_items, local_dba_findings, run_no,
                    first_envelope >>
    /\ UNCHANGED << genVars, wsVars, thVars >>

\* Steps 1 and 2 of analyze_workload: the workload patterns and the shortlist
FilterStep ==
    /\ apc = "validated"
    /\ local_workload_analysis' =
           << AnalyzeWorkloadPatterns(top_sql, wait_events) >>
    /\ LET filtered == FilterProblematicSql(top_sql)
       IN  /\ local_problematic_items' = filtered.problematic_sql
           /\ problematic_sql' = filtered.problematic_sql
           /\ ignored_sql' = filtered.ignored_sql
    /\ local_dba_findings' = << >>
    /\ apc' = "loop"
    /\ UNCHANGED << top_sql, wait_events, data_integrity_validator,
                    last_validation_result, envelope, epc >>
    /\ UNCHANGED << hash_seed, stages, run_no, first_envelope >>
    /\ UNCHANGED << genVars, wsVars, thVars >>

\* Step 3, for the next item: the signals are built from its metrics
NormalizeStep ==
    /\ apc = "loop"
    /\ Len(local_dba_findings) < Len(local_problematic_items)
    /\ LET item == local_problematic_items[Len(local_dba_findings) + 1]
       IN  signals' = SignalsFromMetrics(item.sql_id, item.metrics)
    /\ stages' = Append(stages, "normalize")
    /\ apc' = "normalized"
    /\ UNCHANGED << decision, generated, proof, pc >>
    /\ UNCHANGED << expertVars, wsVars, thVars >>
    /\ UNCHANGED << hash_seed, local_workload_analysis,
                    local_problematic_items, local_dba_findings, run_no,
                    first_envelope >>

\* Step 3, for the item: decision_engine.evaluate(signals)
EvaluateStep ==
    /\ apc = "normalized"
    /\ decision' = << evaluate(signals, hash_seed) >>
    /\ stages' = Append(stages, "evaluate")
    /\ apc' = "evaluated"
    /\ UNCHANGED << signals, generated, proof, pc >>
    /\ UNCHANGED << expertVars, wsVars, thVars >>
    /\ UNCHANGED << hash_seed, local_workload_analysis,
                    local_problematic_items, local_dba_findings, run_no,
                    first_envelope >>

\* Step 3, for the item: sql_generator.generate_all(decision) and the finding.
\* Nothing between generate_all and the caller of analyze_workload handles an
\* exception, so an exception ends the request.
GenerateStep ==
    /\ apc = "evaluated"
    /\ stages' = Append(stages, "generate_all")
    /\ IF GenerateAllRaises(decision[1])
       THEN /\ apc' = "raised"
            /\ UNCHANGED << generated, local_dba_findings >>
       ELSE LET item == local_problematic_items[Len(local_dba_findings) + 1]
                generated_sql == generate_all(decision[1])
            IN  /\ generated' = generated_sql
                /\ local_dba_findings' =
                       Append(local_dba_findings,
                              FindingResult(item,
                                  DynamicRecommendations(decision[1],
                                                         generated_sql)))
                /\ apc' = "loop"
    /\ UNCHANGED << signals, decision, proof, pc >>
    /\ UNCHANGED << expertVars, wsVars, thVars >>
    /\ UNCHANGED << hash_seed, local_workload_analysis,
                    local_problematic_items, run_no, first_envelope >>

\* Step 4 of analyze_workload: the envelope
ReturnStep ==
    /\ apc = "loop"
    /\ Len(local_dba_findings) = Len(local_problematic_items)
    /\ envelope' = << SuccessEnvelope(local_workload_analysis[1],
                                      local_dba_findings) >>
    /\ apc' = "returned"
    /\ UNCHANGED << top_sql, wait_events, data_integrity_validator,
                    last_validation_result, problematic_sql, ignored_sql, epc >>
    /\ UNCHANGED << hash_seed, local_workload_analysis,
                    local_problematic_items, local_dba_findings, stages,
                    run_no, first_envelope >>
    /\ UNCHANGED << genVars, wsVars, thVars >>

PipeNext ==
    \/ StartRequest
    \/ RestartProcess
    \/ ValidateStep
    \/ FilterStep
    \/ NormalizeStep
    \/ EvaluateStep
    \/ GenerateStep
    \/ ReturnStep

SpecPipeline == PipeInit /\ [][PipeNext]_vars

\* ========================================================================
\* engine/unified_metrics.py and the workspace of api/rca_routes.py
\* ========================================================================
\* Times are whole seconds.  Percentages read from a report are in units of
\* 1/100 percent; cpu_percentage and io_wait_percentage, which the code rounds
\* to one decimal, are in units of 1/10 percent.
Max(a, b) == IF a >= b THEN a ELSE b

\* round(n / d, 1) in units of 1/10, for d > 0
Round1(n, d) ==
    IF n >= 0 THEN RoundHalfEven(n * 10, d)
    ELSE 0 - RoundHalfEven((0 - n) * 10, d)

\* the tables _find_csv_files looks for
MetricTables == {"awr_sql_stats", "awr_wait_events", "awr_instance_stats"}

AshTables == {"ash_activity_over_time", "ash_events", "ash_features"}

\* What an AWR report holds: the tables the parser finds in it, the sums of
\* its SQL statistics, the times of its wait events and what
\* SnapshotMetadataParser.parse returns for it (<< >>: parse_success false)
NoMetadata == << >>

Metadata(elapsed_seconds, cpu_cores, db_cpu_seconds, busy, idle) ==
    << [ elapsed_seconds       |-> elapsed_seconds,
         cpu_cores             |-> cpu_cores,
         db_cpu_seconds        |-> db_cpu_seconds,
         instance_cpu_busy_pct |-> busy,
         host_cpu_idle_pct     |-> idle ] >>

Report(tables, elapsed, executions, cpu, db_cpu, db_time, io_wait, meta) ==
    [ tables     |-> tables,
      elapsed    |-> elapsed,
      executions |-> executions,
      cpu        |-> cpu,
      db_cpu     |-> db_cpu,
      db_time    |-> db_time,
      io_wait    |-> io_wait,
      meta       |-> meta ]

NoReport == Report({}, 0, 0, 0, 0, 0, 0, NoMetadata)

\* instance %Busy CPU present
ReportBusy ==
    Report(MetricTables, 300, 1200, 120, 100, 400, 150,
           Metadata(3600, 4, 110, << 3557 >>, << 6012 >>))

\* no %Busy, no %Idle, no DB CPU
ReportNoCpu ==
    Report(MetricTables, 300, 1200, 120, 0, 0, 0,
           Metadata(3600, 4, 0, << >>, << >>))

\* a negative wait time in the wait events table, %Busy above 100
ReportNegativeWait ==
    Report(MetricTables, 300, 1200, 120, 100, 400, 0 - 20,
           Metadata(3600, 4, 110, << 12000 >>, << >>))

\* host %Idle only, no DB time
ReportIdle ==
    Report(MetricTables, 300, 1200, 120, 100, 0, 150,
           Metadata(3600, 4, 0, << >>, << 6012 >>))

\* DB CPU only
ReportDbCpu ==
    Report(MetricTables, 300, 1200, 120, 100, 400, 500,
           Metadata(3600, 4, 110, << >>, << >>))

\* a report without the wait events and instance tables: the parser writes
\* the SQL statistics and then raises
ReportPartial ==
    Report({"awr_sql_stats"}, 300, 1200, 120, 0, 0, 0, NoMetadata)

\* a report without the instance activity table
ReportNoInstanceStats ==
    Report({"awr_sql_stats", "awr_wait_events"}, 300, 1200, 120, 100, 400, 150,
           Metadata(3600, 4, 110, << 3557 >>, << 6012 >>))

\* class AWRMetrics: the defaults
AWRMetrics ==
    [ total_elapsed_time_s  |-> 0,
      total_executions      |-> 0,
      total_cpu_time_s      |-> 0,
      db_time_s             |-> 0,
      db_cpu_time_s         |-> 0,
      io_wait_time_s        |-> 0,
      snapshot_elapsed_s    |-> 0,
      cpu_cores             |-> 8,
      instance_cpu_busy_pct |-> << >>,
      host_cpu_idle_pct     |-> << >>,
      cpu_percentage        |-> 0,
      io_wait_percentage    |-> 0,
      is_valid              |-> FALSE,
      source_csv_files      |-> {} ]

\* _find_csv_files: the keys of the dictionary it returns
FindCsvFiles(csvs) ==
    {t \in {"sql_stats", "wait_events", "instance_stats"} :
        \E f \in csvs : f.table = "awr_" \o t}

\* the file _find_csv_files returns for a key
CsvFile(csvs, t) == CHOOSE f \in csvs : f.table = "awr_" \o t

\* _extract_sql_stats_metrics
ExtractSqlStatsMetrics(file, metrics) ==
    [metrics EXCEPT !.total_elapsed_time_s = file.report.elapsed,
                    !.total_executions = file.report.executions,
                    !.total_cpu_time_s = file.report.cpu]

\* _extract_wait_events_metrics
ExtractWaitEventsMetrics(file, metrics) ==
    [metrics EXCEPT !.db_cpu_time_s = file.report.db_cpu,
                    !.db_time_s = file.report.db_time,
                    !.io_wait_time_s = file.report.io_wait]

\* _extract_html_metadata
ExtractHtmlMetadata(html, metrics) ==
    IF html.report.meta = NoMetadata THEN metrics
    ELSE LET metadata == html.report.meta[1]
             m1 == IF metadata.elapsed_seconds # 0
                   THEN [metrics EXCEPT !.snapshot_elapsed_s =
                                            metadata.elapsed_seconds]
                   ELSE metrics
             m2 == IF metadata.cpu_cores # 0
                   THEN [m1 EXCEPT !.cpu_cores = metadata.cpu_cores]
                   ELSE m1
             m3 == IF /\ metadata.db_cpu_seconds # 0
                      /\ \/ m2.db_cpu_time_s = 0
                         \/ metadata.db_cpu_seconds > m2.db_cpu_time_s
                   THEN [m2 EXCEPT !.db_cpu_time_s = metadata.db_cpu_seconds]
                   ELSE m2
             m4 == IF metadata.instance_cpu_busy_pct # << >>
                   THEN [m3 EXCEPT !.instance_cpu_busy_pct =
                                       metadata.instance_cpu_busy_pct]
                   ELSE m3
         IN  IF metadata.host_cpu_idle_pct # << >>
             THEN [m4 EXCEPT !.host_cpu_idle_pct = metadata.host_cpu_idle_pct]
             ELSE m4

\* min(100.0, max(0.0, x))
ClampPct(x) == Min(1000, Max(0, x))

\* _compute_derived_metrics: cpu_percentage
CpuPercentage(metrics) ==
    IF metrics.instance_cpu_busy_pct # << >>
    THEN ClampPct(Round1(metrics.instance_cpu_busy_pct[1], 100))
    ELSE IF metrics.host_cpu_idle_pct # << >>
    THEN ClampPct(Round1(10000 - metrics.host_cpu_idle_pct[1], 100))
    ELSE IF metrics.db_cpu_time_s > 0 /\ metrics.snapshot_elapsed_s > 0
    THEN ClampPct(Round1(metrics.db_cpu_time_s * 100,
                         metrics.snapshot_elapsed_s * metrics.cpu_cores))
    ELSE 0

\* _compute_derived_metrics: io_wait_percentage
IoWaitPercentage(metrics) ==
    IF metrics.db_time_s > 0
    THEN Min(1000, Round1(metrics.io_wait_time_s * 100, metrics.db_time_s))
    ELSE IF metrics.total_elapsed_time_s > 0 /\ metrics.io_wait_time_s > 0
    THEN Min(1000, Round1(metrics.io_wait_time_s * 100,
                          metrics.total_elapsed_time_s))
    ELSE 0

\* _compute_derived_metrics
ComputeDerivedMetrics(metrics) ==
    [metrics EXCEPT !.cpu_percentage = CpuPercentage(metrics),
                    !.io_wait_percentage = IoWaitPercentage(metrics)]

\* A calculator: UnifiedMetricsCalculator.__init__
UnifiedMetricsCalculator(csv_dir, html_file_path) ==
    [ csv_dir         |-> csv_dir,
      html_file_path  |-> html_file_path,
      cached_metrics  |-> << >> ]

\* compute_metrics past the test of _cached_metrics: the computation from
\* the files
ComputeMetricsFresh(calculator, force_refresh, csvs, htmls) ==
    LET csv_files == FindCsvFiles(csvs)
    IN  IF csv_files = {}
        THEN [ metrics |-> AWRMetrics, calculator |-> calculator,
               computed |-> TRUE ]
        ELSE LET m0 == [AWRMetrics EXCEPT !.source_csv_files = csv_files]
                 m1 == IF "sql_stats" \in csv_files
                       THEN ExtractSqlStatsMetrics(CsvFile(csvs, "sql_stats"), m0)
                       ELSE m0
                 m2 == IF "wait_events" \in csv_files
                       THEN ExtractWaitEventsMetrics(
                                CsvFile(csvs, "wait_events"), m1)
                       ELSE m1
                 m3 == IF /\ calculator.html_file_path # << >>
                          /\ \E h \in htmls :
                                 h.filename = calculator.html_file_path[1]
                       THEN ExtractHtmlMetadata(
                                CHOOSE h \in htmls :
                                    h.filename = calculator.html_file_path[1],
                                m2)
                       ELSE m2
                 m4 == [ComputeDerivedMetrics(m3) EXCEPT !.is_valid = TRUE]
             IN  [ metrics |-> m4,
                   calculator |-> [calculator EXCEPT !.cached_metrics = << m4 >>],
                   computed |-> TRUE ]

\* UnifiedMetricsCalculator.compute_metrics on the files of the workspace:
\* the value returned, the calculator afterwards, and whether the value was
\* computed by this call
ComputeMetrics(calculator, force_refresh, csvs, htmls) ==
    IF calculator.cached_metrics # << >> /\ ~force_refresh
    THEN [ metrics |-> calculator.cached_metrics[1],
           calculator |-> calculator, computed |-> FALSE ]
    ELSE ComputeMetricsFresh(calculator, force_refresh, csvs, htmls)

\* _find_awr_html_file: << >> or << the name of the AWR report >>
FindAwrHtmlFile(htmls) ==
    IF \E h \in htmls : h.type = "AWR"
    THEN << (CHOOSE h \in htmls : h.type = "AWR").filename >>
    ELSE << >>

\* ------------------------------------------------------------------------
\* The workspaces, the process-wide cache and the handlers of rca_routes.py
\* ------------------------------------------------------------------------
MaxIngestions == 2

MaxReads == 2

\* _metrics_cache[key] = value
Put(cache, key, value) ==
    [k \in DOMAIN cache \cup {key} |-> IF k = key THEN value ELSE cache[k]]

\* get_unified_metrics on the files of the workspace: the cache afterwards,
\* the value returned and whether this call computed it
GetUnifiedMetrics(cache, csv_dir, html_file_path, force_refresh, csvs, htmls) ==
    LET cache_key == csv_dir
        cache1 == IF cache_key \notin DOMAIN cache \/ force_refresh
                  THEN Put(cache, cache_key,
                           UnifiedMetricsCalculator(csv_dir, html_file_path))
                  ELSE cache
        r == ComputeMetrics(cache1[cache_key], force_refresh, csvs, htmls)
    IN  [ cache    |-> Put(cache1, cache_key, r.calculator),
          metrics  |-> r.metrics,
          computed |-> r.computed ]

\* Variant of the eviction that forgets nothing.
ClearMetricsCacheKeep(cache, csv_dir) == cache

\* Variant of the eviction that forgets every entry whatever it is given.
ClearMetricsCacheAll(cache, csv_dir) == EmptyCache

\* clear_metrics_cache: csv_dir is << >> (None) or << a path >>
ClearMetricsCache(cache, csv_dir) ==
    IF csv_dir # << >> /\ csv_dir[1] # ""
    THEN [k \in DOMAIN cache \ {csv_dir[1]} |-> cache[k]]
    ELSE EmptyCache

\* an uploaded file: its name, the name without the extension, what the
\* handler takes it for, and the report inside it
Upload(filename, base, type, report) ==
    [filename |-> filename, base |-> base, type |-> type, report |-> report]

AwrFiles ==
    { Upload("awr_busy.html", "awr_busy", "AWR", ReportBusy),
      Upload("awr_nocpu.html", "awr_nocpu", "AWR", ReportNoCpu),
      Upload("awr_negwait.html", "awr_negwait", "AWR", ReportNegativeWait),
      Upload("awr_idle.html", "awr_idle", "AWR", ReportIdle),
      Upload("awr_dbcpu.html", "awr_dbcpu", "AWR", ReportDbCpu),
      Upload("awr_partial.html", "awr_partial", "AWR", ReportPartial),
      Upload("awr_instance_stats_x.html", "awr_instance_stats_x", "AWR",
             ReportNoInstanceStats),
      Upload("awr_crash.html", "awr_crash", "AWR", ReportBusy) }

AshFile == Upload("ash_rpt.html", "ash_rpt", "ASH", NoReport)

UnknownFile == Upload("notes.html", "notes", "UNKNOWN", NoReport)

CsvFileUpload == Upload("export.csv", "export", "NOT_HTML", NoReport)

\* the requests to /upload: one AWR report at most, with or without other
\* files
UploadRequests ==
    {{f} : f \in AwrFiles}
        \cup {{Upload("awr_busy.html", "awr_busy", "AWR", ReportBusy), AshFile},
              {AshFile}, {AshFile, UnknownFile, CsvFileUpload}}

\* Variant of the reset that leaves the directory as it is.
ResetDirectoryKeep(dir) == dir

\* shutil.rmtree and os.makedirs on a directory of the workspace
ResetDirectory(dir) == {}

\* writing uploaded files into raw_html replaces the files of the same name
WriteHtmlFiles(dir, files) ==
    {g \in dir : \A f \in files : g.filename # f.filename} \cup files

\* writing CSV files into parsed_csv replaces the files of the same name
WriteCsvFiles(dir, files) ==
    {g \in dir : \A f \in files :
                     << g.table, g.prefix >> # << f.table, f.prefix >>}
        \cup files

\* the characters of a name: file names are compared by their characters
Chars(name) ==
    CASE name = "awr" -> << "a", "w", "r" >>
      [] name = "ash" -> << "a", "s", "h" >>
      [] name = ".csv" -> << ".", "c", "s", "v" >>
      [] name = "awr_sql_stats" ->
             << "a", "w", "r", "_", "s", "q",
                "l", "_", "s", "t", "a", "t", "s" >>
      [] name = "awr_wait_events" ->
             << "a", "w", "r", "_", "w", "a", "i",
                "t", "_", "e", "v", "e", "n", "t", "s" >>
      [] name = "awr_instance_stats" ->
             << "a", "w", "r", "_", "i", "n", "s", "t", "a",
                "n", "c", "e", "_", "s", "t", "a", "t", "s" >>
      [] name = "ash_activity_over_time" ->
             << "a", "s", "h", "_", "a", "c", "t", "i", "v", "i", "t",
                "y", "_", "o", "v", "e", "r", "_", "t", "i", "m", "e" >>
      [] name = "ash_events" ->
             << "a", "s", "h", "_", "e",
                "v", "e", "n", "t", "s" >>
      [] name = "ash_features" ->
             << "a", "s", "h", "_", "f", "e",
                "a", "t", "u", "r", "e", "s" >>
      [] name = "awr_busy" -> << "a", "w", "r", "_", "b", "u", "s", "y" >>
      [] name = "awr_nocpu" ->
             << "a", "w", "r", "_",
                "n", "o", "c", "p", "u" >>
      [] name = "awr_negwait" ->
             << "a", "w", "r", "_", "n",
                "e", "g", "w", "a", "i", "t" >>
      [] name = "awr_idle" -> << "a", "w", "r", "_", "i", "d", "l", "e" >>
      [] name = "awr_dbcpu" ->
             << "a", "w", "r", "_",
                "d", "b", "c", "p", "u" >>
      [] name = "awr_partial" ->
             << "a", "w", "r", "_", "p",
                "a", "r", "t", "i", "a", "l" >>
      [] name = "awr_instance_stats_x" ->
             << "a", "w", "r", "_", "i", "n", "s", "t", "a", "n",
                "c", "e", "_", "s", "t", "a", "t", "s", "_", "x" >>
      [] name = "awr_crash" ->
             << "a", "w", "r", "_",
                "c", "r", "a", "s", "h" >>
      [] name = "ash_rpt" -> << "a", "s", "h", "_", "r", "p", "t" >>
      [] name = "notes" -> << "n", "o", "t", "e", "s" >>
      [] name = "export" -> << "e", "x", "p", "o", "r", "t" >>

\* needle in hay, for two sequences of characters
IsSubstring(needle, hay) ==
    \E i \in 1 .. (Len(hay) - Len(needle) + 1) :
        SubSeq(hay, i, i + Len(needle) - 1) = needle

\* the name of the CSV file a parser writes for a table:
\* "<table>_<file_prefix>.csv"
CsvFilename(table, file_prefix) ==
    Chars(table) \o << "_" >> \o Chars(file_prefix) \o Chars(".csv")

\* word in filename, for the words the code looks for in the names of the
\* CSV files and the names the parsers can write
InFilename ==
    [word \in {"awr", "ash"} \cup MetricTables |->
        [table \in MetricTables \cup AshTables |->
            [file_prefix \in {f.base : f \in AwrFiles \cup {AshFile}} |->
                IsSubstring(Chars(word), CsvFilename(table, file_prefix))]]]

\* word in the name of the CSV file f
InCsvFilename(word, f) == InFilename[word][f.table][f.prefix]

\* the CSV files a parser leaves in parsed_csv for an uploaded file:
\* parse_awr_with_prefix writes the tables it finds, also when it then
\* raises for a missing one; parse_ash_with_prefix writes its three tables
GeneratedCsv(f, n) ==
    IF f.type = "AWR"
    THEN {[table |-> t, prefix |-> f.base, report |-> f.report, ingestion |-> n]
              : t \in f.report.tables}
    ELSE IF f.type = "ASH"
    THEN {[table |-> t, prefix |-> f.base, report |-> f.report, ingestion |-> n]
              : t \in AshTables}
    ELSE {}

\* parse_awr_with_prefix: the required names it finds in none of the names of
\* the files the pipeline generated; it raises when there is one
MissingRequired(csv_generated) ==
    {req \in MetricTables :
        ~ \E f \in csv_generated : InCsvFilename(req, f)}

\* upload_files, the body of its loop: the entry of parsing_results for an
\* uploaded HTML file
ParsingResult(f, n) ==
    LET csv_generated == GeneratedCsv(f, n)
        raised == \/ f.type = "AWR" /\ MissingRequired(csv_generated) # {}
                  \/ f.type = "UNKNOWN"
    IN  [ file      |-> f.filename,
          status    |-> IF raised THEN "error" ELSE "success",
          csv_files |-> IF raised THEN 0 ELSE Cardinality(csv_generated) ]

\* _check_ash_files_exist
CheckAshFilesExist(csvs) ==
    \E f \in csvs : InCsvFilename("ash", f)

\* _check_awr_files_exist
CheckAwrFilesExist(csvs) ==
    \E f \in csvs : InCsvFilename("awr", f)

\* detect_high_load_periods: the blocks of its result, each named by the
\* analysis that made it ("ASH": ASH High Load, ASH Normal or ASH Error;
\* "AWR": AWR High Load, AWR Normal or AWR Error; "No Data")
DetectHighLoadPeriods(csvs) ==
    LET has_ash_files == CheckAshFilesExist(csvs)
        has_awr_files == CheckAwrFilesExist(csvs)
    IN  IF has_awr_files /\ ~ has_ash_files THEN << "AWR" >>
        ELSE IF has_ash_files /\ ~ has_awr_files THEN << "ASH" >>
        ELSE IF has_ash_files /\ has_awr_files THEN << "ASH", "AWR" >>
        ELSE << "No Data" >>

\* the handler upload_files, from the reset of the two directories to the
\* metrics of the response
UploadFiles ==
    \E ws \in Workspaces, files \in UploadRequests :
        /\ ingestions[ws] < MaxIngestions
        /\ LET n == ingestions[ws] + 1
               stored == {[filename |-> f.filename, type |-> f.type,
                           report |-> f.report, ingestion |-> n]
                              : f \in {g \in files : g.type # "NOT_HTML"}}
               csv_generated == UNION {GeneratedCsv(f, n) : f \in files}
               upload_dir == WriteHtmlFiles(ResetDirectory(raw_html[ws]),
                                            stored)
               parsed_dir == WriteCsvFiles(ResetDirectory(parsed_csv[ws]),
                                           csv_generated)
               html_file == FindAwrHtmlFile(upload_dir)
               r == ComputeMetrics(UnifiedMetricsCalculator(ws, html_file),
                                   FALSE, parsed_dir, upload_dir)
           IN  /\ ingestions' = [ingestions EXCEPT ![ws] = n]
               /\ raw_html' = [raw_html EXCEPT ![ws] = upload_dir]
               /\ parsed_csv' = [parsed_csv EXCEPT ![ws] = parsed_dir]
               /\ metrics_cache' = ClearMetricsCache(metrics_cache, << ws >>)
               /\ computations' =
                      [computations EXCEPT ![ws] =
                          IF html_file # << >> /\ FindCsvFiles(parsed_dir) # {}
                          THEN 1 ELSE 0]
               /\ last_clear' = [ called |-> TRUE, csv_dir |-> << ws >>,
                                  hit |-> ws \in DOMAIN metrics_cache ]
               /\ parsing_results' =
                      [parsing_results EXCEPT ![ws] =
                          {ParsingResult(f, n) :
                              f \in {g \in files : g.type # "NOT_HTML"}}]
               /\ high_load_periods' =
                      [high_load_periods EXCEPT ![ws] =
                          DetectHighLoadPeriods(parsed_dir)]
    /\ UNCHANGED << genVars, expertVars, pipeVars, thVars >>

\* the handler run_rca on a workspace that holds the tables of an AWR
\* report: the metrics it puts into its response
RunRca ==
    \E ws \in Workspaces :
        /\ FindCsvFiles(parsed_csv[ws]) # {}
        /\ computations[ws] < MaxReads
        /\ LET html_file_path == FindAwrHtmlFile(raw_html[ws])
               r == ComputeMetrics(
                        UnifiedMetricsCalculator(ws, html_file_path), FALSE,
                        parsed_csv[ws], raw_html[ws])
           IN  /\ computations' =
                      [computations EXCEPT ![ws] = computations[ws] + 1]
               /\ last_clear' = NoClear
    /\ UNCHANGED << raw_html, parsed_csv, metrics_cache, ingestions,
                    parsing_results, high_load_periods >>
    /\ UNCHANGED << genVars, expertVars, pipeVars, thVars >>

\* the handler get_results on a workspace that holds CSV files
GetResults ==
    \E ws \in Workspaces :
        /\ parsed_csv[ws] # {}
        /\ LET html_file == FindAwrHtmlFile(raw_html[ws])
               r == ComputeMetrics(UnifiedMetricsCalculator(ws, html_file),
                                   FALSE, parsed_csv[ws], raw_html[ws])
           IN  /\ metrics_cache' = ClearMetricsCache(metrics_cache, << ws >>)
               /\ computations' =
                      [computations EXCEPT ![ws] =
                          IF html_file # << >>
                             /\ FindCsvFiles(parsed_csv[ws]) # {}
                          THEN 1 ELSE 0]
               /\ last_clear' = [ called |-> TRUE, csv_dir |-> << ws >>,
                                  hit |-> ws \in DOMAIN metrics_cache ]
               /\ high_load_periods' =
                      [high_load_periods EXCEPT ![ws] =
                          DetectHighLoadPeriods(parsed_csv[ws])]
    /\ UNCHANGED << raw_html, parsed_csv, ingestions, parsing_results >>
    /\ UNCHANGED << genVars, expertVars, pipeVars, thVars >>

\* a consumer reads the metrics of a workspace through get_unified_metrics
CallGetUnifiedMetrics ==
    \E ws \in Workspaces, force_refresh \in BOOLEAN :
        \E html_file_path \in {<< >>, FindAwrHtmlFile(raw_html[ws])} :
            /\ computations[ws] < MaxReads
            /\ LET r == GetUnifiedMetrics(metrics_cache, ws, html_file_path,
                                          force_refresh, parsed_csv[ws],
                                          raw_html[ws])
                   fromTables == r.computed /\ FindCsvFiles(parsed_csv[ws]) # {}
               IN  /\ metrics_cache' = r.cache
                   /\ computations' =
                          [computations EXCEPT ![ws] =
                              IF force_refresh
                              THEN (IF fromTables THEN 1 ELSE 0)
                              ELSE computations[ws]
                                       + (IF fromTables THEN 1 ELSE 0)]
                   /\ last_clear' = NoClear
    /\ UNCHANGED << raw_html, parsed_csv, ingestions, parsing_results,
                    high_load_periods >>
    /\ UNCHANGED << genVars, expertVars, pipeVars, thVars >>

\* a consumer evicts one entry of the cache, or all of them
CallClearMetricsCache ==
    \E csv_dir \in {<< >>} \cup {<< ws >> : ws \in Workspaces} :
        /\ metrics_cache' = ClearMetricsCache(metrics_cache, csv_dir)
        /\ computations' =
               [ws \in Workspaces |->
                   IF ws \in DOMAIN metrics_cache'
                   THEN computations[ws] ELSE 0]
        /\ last_clear' = [ called |-> TRUE, csv_dir |-> csv_dir,
                           hit |-> IF csv_dir = << >>
                                   THEN DOMAIN metrics_cache # {}
                                   ELSE csv_dir[1] \in DOMAIN metrics_cache ]
    /\ UNCHANGED << raw_html, parsed_csv, ingestions, parsing_results,
                    high_load_periods >>
    /\ UNCHANGED << genVars, expertVars, pipeVars, thVars >>

WsInit ==
    /\ WsIdle
    /\ ThIdle
    /\ PipeIdle
    /\ ExpertIdle
    /\ signals = CHOOSE s \in NormalizedSignals : TRUE
    /\ decision = << >>
    /\ generated = << >>
    /\ proof = << >>
    /\ pc = "idle"

WsNext ==
    \/ UploadFiles
    \/ RunRca
    \/ GetResults
    \/ CallGetUnifiedMetrics
    \/ CallClearMetricsCache

SpecWorkspace == WsInit /\ [][WsNext]_vars

\* ------------------------------------------------------------------------
\* The accessors of the cache, statement by statement, called by threads
\* ------------------------------------------------------------------------
\* Each thread is inside at most one accessor call.  pc names the statement
\* the thread executes next: "check" (line 408), "insert" (line 409),
\* "lookup" (the subscription of line 411), "compute" (compute_metrics on the
\* calculator found), "remove" (line 424 or 426).  The module has no lock, so
\* the statements of different threads interleave freely.
MaxObjects == 3

\* the files of a workspace after the upload of one AWR report
Bundle(f) ==
    [ htmls |-> {[filename |-> f.filename, type |-> f.type,
                  report |-> f.report, ingestion |-> 1]},
      csvs  |-> GeneratedCsv(f, 1) ]

ThreadBundles ==
    [ws \in Workspaces |->
        IF ws = "data/users/alice/parsed_csv"
        THEN Bundle(Upload("awr_busy.html", "awr_busy", "AWR", ReportBusy))
        ELSE Bundle(Upload("awr_idle.html", "awr_idle", "AWR", ReportIdle))]

ThreadInit ==
    /\ raw_html = [ws \in Workspaces |-> ThreadBundles[ws].htmls]
    /\ parsed_csv = [ws \in Workspaces |-> ThreadBundles[ws].csvs]
    /\ metrics_cache = EmptyCache
    /\ ingestions = [ws \in Workspaces |-> 1]
    /\ computations = [ws \in Workspaces |-> 0]
    /\ last_clear = NoClear
    /\ parsing_results =
           [ws \in Workspaces |->
               {[file |-> h.filename, status |-> "success", csv_files |-> 3]
                    : h \in ThreadBundles[ws].htmls}]
    /\ high_load_periods =
           [ws \in Workspaces |->
               DetectHighLoadPeriods(ThreadBundles[ws].csvs)]
    /\ ThIdle
    /\ PipeIdle
    /\ ExpertIdle
    /\ signals = CHOOSE s \in NormalizedSignals : TRUE
    /\ decision = << >>
    /\ generated = << >>
    /\ proof = << >>
    /\ pc = "idle"

\* the calls of get_unified_metrics that have not yet passed line 409
PendingInserts ==
    Cardinality({t \in Threads : threads[t].pc \in {"check", "insert"}})

\* a thread calls get_unified_metrics(csv_dir, html_file_path, force_refresh)
ThreadCallGet(t) ==
    /\ threads[t].pc = "idle"
    /\ Len(heap) + PendingInserts < MaxObjects
    /\ \E ws \in Workspaces, force \in BOOLEAN :
           threads' = [threads EXCEPT ![t] =
                          [ pc |-> "check", op |-> "get_unified_metrics",
                            csv_dir |-> << ws >>, force_refresh |-> force,
                            ref |-> 0, evicted |-> FALSE ]]
    /\ UNCHANGED << heap, metrics_cache_refs >>
    /\ UNCHANGED << genVars, expertVars, pipeVars, wsVars >>

\* line 408: if cache_key not in _metrics_cache or force_refresh
ThreadCheck(t) ==
    /\ threads[t].pc = "check"
    /\ threads' = [threads EXCEPT ![t].pc =
                      IF \/ threads[t].csv_dir[1] \notin DOMAIN metrics_cache_refs
                         \/ threads[t].force_refresh
                      THEN "insert" ELSE "lookup"]
    /\ UNCHANGED << heap, metrics_cache_refs >>
    /\ UNCHANGED << genVars, expertVars, pipeVars, wsVars >>

\* a reader that has found its calculator and reads the key csv_dir, or any
\* key when csv_dir is << >>
HasRead(u, csv_dir) ==
    /\ threads[u].op = "get_unified_metrics"
    /\ threads[u].pc \in {"compute", "returned"}
    /\ csv_dir \in {<< >>, threads[u].csv_dir}

\* line 409: a calculator is constructed and stored under the key.  evicted
\* records, for a reader that has found its calculator, that a forced refresh
\* replaced it afterwards
ThreadInsert(t) ==
    /\ threads[t].pc = "insert"
    /\ LET ws == threads[t].csv_dir[1]
       IN  /\ heap' = Append(heap, UnifiedMetricsCalculator(
                                       ws, FindAwrHtmlFile(raw_html[ws])))
           /\ metrics_cache_refs' = Put(metrics_cache_refs, ws, Len(heap) + 1)
    /\ threads' =
           [u \in Threads |->
               IF u = t THEN [threads[t] EXCEPT !.pc = "lookup"]
               ELSE IF threads[t].force_refresh /\ HasRead(u, threads[t].csv_dir)
               THEN [threads[u] EXCEPT !.evicted = TRUE]
               ELSE threads[u]]
    /\ UNCHANGED << genVars, expertVars, pipeVars, wsVars >>

\* line 411: _metrics_cache[cache_key], a KeyError when the key is not there
ThreadLookup(t) ==
    /\ threads[t].pc = "lookup"
    /\ LET ws == threads[t].csv_dir[1]
       IN  IF ws \in DOMAIN metrics_cache_refs
           THEN threads' = [threads EXCEPT ![t].pc = "compute",
                                           ![t].ref = metrics_cache_refs[ws]]
           ELSE threads' = [threads EXCEPT ![t].pc = "raised"]
    /\ UNCHANGED << heap, metrics_cache_refs >>
    /\ UNCHANGED << genVars, expertVars, pipeVars, wsVars >>

\* line 411: compute_metrics(force_refresh) on the calculator found
ThreadCompute(t) ==
    /\ threads[t].pc = "compute"
    /\ LET ws == threads[t].csv_dir[1]
           r == ComputeMetrics(heap[threads[t].ref], threads[t].force_refresh,
                               parsed_csv[ws], raw_html[ws])
       IN  heap' = [heap EXCEPT ![threads[t].ref] = r.calculator]
    /\ threads' = [threads EXCEPT ![t].pc = "returned"]
    /\ UNCHANGED metrics_cache_refs
    /\ UNCHANGED << genVars, expertVars, pipeVars, wsVars >>

\* a thread calls clear_metrics_cache(csv_dir)
ThreadCallClear(t) ==
    /\ threads[t].pc = "idle"
    /\ \E dir \in {<< >>} \cup {<< ws >> : ws \in Workspaces} :
           threads' = [threads EXCEPT ![t] =
                          [ pc |-> "remove", op |-> "clear_metrics_cache",
                            csv_dir |-> dir, force_refresh |-> FALSE,
                            ref |-> 0, evicted |-> FALSE ]]
    /\ UNCHANGED << heap, metrics_cache_refs >>
    /\ UNCHANGED << genVars, expertVars, pipeVars, wsVars >>

\* line 424 or 426: the pop or the clear of the dictionary.  evicted records,
\* for a reader that has found its calculator, that the key it read was
\* evicted afterwards
ThreadRemove(t) ==
    /\ threads[t].pc = "remove"
    /\ metrics_cache_refs' =
           ClearMetricsCache(metrics_cache_refs, threads[t].csv_dir)
    /\ threads' =
           [u \in Threads |->
               IF u = t THEN [threads[t] EXCEPT !.pc = "returned"]
               ELSE IF HasRead(u, threads[t].csv_dir)
               THEN [threads[u] EXCEPT !.evicted = TRUE]
               ELSE threads[u]]
    /\ UNCHANGED heap
    /\ UNCHANGED << genVars, expertVars, pipeVars, wsVars >>

\* the call is over: it has returned or it has raised
ThreadReturn(t) ==
    /\ threads[t].pc \in {"returned", "raised"}
    /\ threads' = [threads EXCEPT ![t] = IdleThread]
    /\ UNCHANGED << heap, metrics_cache_refs >>
    /\ UNCHANGED << genVars, expertVars, pipeVars, wsVars >>

ThreadNext ==
    \/ \E t \in Threads : ThreadCallGet(t)
    \/ \E t \in Threads : ThreadCheck(t)
    \/ \E t \in Threads : ThreadInsert(t)
    \/ \E t \in Threads : ThreadLookup(t)
    \/ \E t \in Threads : ThreadCompute(t)
    \/ \E t \in Threads : ThreadCallClear(t)
    \/ \E t \in Threads : ThreadRemove(t)
    \/ \E t \in Threads : ThreadReturn(t)

SpecCacheThreads == ThreadInit /\ [][ThreadNext]_vars

\* ========================================================================
\* Properties of the decision engine and the generator
\* ========================================================================
Actions(cmds) == {cmds[i].action : i \in DOMAIN cmds}

\* The category the gate table prescribes: the first gate, in the order
\* Batch, Chatty, IO-Bound, CPU-Bound, Mixed, whose condition holds.
GateBatch(s)  == AvgGt(s.avg_exec_time, <<5, 1>>) /\ s.executions < 50
GateChatty(s) == s.executions > 1000 /\ AvgLt(s.avg_exec_time, <<1, 10>>)
GateIo(s)     == PctGt(s.io_wait_pct, 70)
GateCpu(s)    == PctGt(s.cpu_pct, 70) /\ PctLt(s.io_wait_pct, 30)
GateMixed(s)  ==
    Cardinality({t \in {"avg", "exec", "io", "cpu", "db"} :
        \/ t = "avg"  /\ AvgGt(s.avg_exec_time, <<1, 1>>)
        \/ t = "exec" /\ s.executions > 100
        \/ t = "io"   /\ PctGt(s.io_wait_pct, 40)
        \/ t = "cpu"  /\ PctGt(s.cpu_pct, 40)
        \/ t = "db"   /\ PctGt(s.db_time_pct, 10)}) >= 3
NoGate(s) ==
    ~(GateBatch(s) \/ GateChatty(s) \/ GateIo(s) \/ GateCpu(s) \/ GateMixed(s))
LowestGate(s) ==
    IF GateBatch(s) THEN "BATCH_SQL"
    ELSE IF GateChatty(s) THEN "CHATTY_SQL"
    ELSE IF GateIo(s) THEN "IO_BOUND_SQL"
    ELSE IF GateCpu(s) THEN "CPU_BOUND_SQL"
    ELSE IF GateMixed(s) THEN "MIXED_PROFILE_SQL"
    ELSE "LOW_PRIORITY"

\* C1: evaluate returns the category of the lowest-order gate whose condition
\* holds (Batch, Chatty, IO-Bound, CPU-Bound, Mixed), and LOW_PRIORITY exactly
\* when no gate condition holds.
C1_FirstMatchingGateWins ==
    decision # << >> =>
        /\ decision[1].category = LowestGate(signals)
        /\ (decision[1].category = "LOW_PRIORITY") <=> NoGate(signals)

\* a signal on which both the batch and the IO-bound gate hold has been
\* classified as batch
C1_Witness ==
    /\ decision # << >>
    /\ GateBatch(signals) /\ GateIo(signals)
    /\ decision[1].category = "BATCH_SQL"

\* C2: in every Decision Result no action is both allowed and blocked.
C2_AllowedBlockedDisjoint ==
    decision # << >> =>
        Range(decision[1].allowed_actions)
            \cap Range(decision[1].blocked_actions) = {}

\* a batch decision, with both lists non-empty, has been produced
C2_Witness ==
    /\ decision # << >>
    /\ decision[1].category = "BATCH_SQL"
    /\ decision[1].allowed_actions # << >>
    /\ decision[1].blocked_actions # << >>

\* C3: for a signal classified CHATTY_SQL no artifact of generate_all has the
\* action INDEX_CREATION, SQL_TUNING_ADVISOR, SQL_ACCESS_ADVISOR or
\* PLAN_ANALYSIS.
C3_ChattySuppression ==
    (pc = "generated" /\ decision[1].category = "CHATTY_SQL") =>
        Actions(generated) \cap {"INDEX_CREATION", "SQL_TUNING_ADVISOR",
                                 "SQL_ACCESS_ADVISOR", "PLAN_ANALYSIS"} = {}

\* artifacts have been generated for a chatty signal
C3_Witness ==
    /\ pc = "generated"
    /\ decision[1].category = "CHATTY_SQL"
    /\ Len(generated) > 0

\* C4: for a signal classified BATCH_SQL no artifact of generate_all has the
\* action APPLICATION_THROTTLING, BIND_TUNING or RESULT_CACHING.
C4_BatchSuppression ==
    (pc = "generated" /\ decision[1].category = "BATCH_SQL") =>
        Actions(generated) \cap {"APPLICATION_THROTTLING", "BIND_TUNING",
                                 "RESULT_CACHING"} = {}

\* artifacts, an advisor among them, have been generated for a batch signal
C4_Witness ==
    /\ pc = "generated"
    /\ decision[1].category = "BATCH_SQL"
    /\ "SQL_ACCESS_ADVISOR" \in Actions(generated)

\* C5: every artifact returned by generate_all has a body that contains the
\* "Signal Fingerprint: ..." comment line with the fingerprint of the signals
\* that produced it.
C5_EveryBodyCarriesFingerprint ==
    pc = "generated" =>
        \A i \in DOMAIN generated :
            generated[i].sql.fp_line
                = << CreateSignalFingerprint(decision[1].signals) >>

\* C6: two signals with the same sql_id that differ in io_wait_pct, cpu_pct,
\* executions or avg_exec_time give generate_all results that differ in
\* category, number of artifacts, artifact text or fingerprint.
C6_DifferentSignalsDifferentOutput ==
    \A k \in DOMAIN proof :
        LET p == proof[k]
            a == p.signals1
            b == p.signals2
        IN  (/\ a.sql_id = b.sql_id
             /\ \/ a.io_wait_pct # b.io_wait_pct
                \/ a.cpu_pct # b.cpu_pct
                \/ a.executions # b.executions
                \/ a.avg_exec_time # b.avg_exec_time)
            => \/ p.category_1 # p.category_2
               \/ Len(p.commands1) # Len(p.commands2)
               \/ \E i \in DOMAIN p.commands1 :
                      \/ p.commands1[i].sql # p.commands2[i].sql
                      \/ p.commands1[i].intent # p.commands2[i].intent
                      \/ p.commands1[i].explanation # p.commands2[i].explanation
                      \/ p.commands1[i].signal_fingerprint
                             # p.commands2[i].signal_fingerprint
               \/ p.fingerprint_1 # p.fingerprint_2

\* ========================================================================
\* Properties of the orchestrator
\* ========================================================================
\* every item the filter kept (returned or ignored)
KeptItems == problematic_sql \o ignored_sql

\* C7: whatever the rows and whatever the validation outcome, the envelope
\* analyze_workload returns contains at most 3 findings.
C7_AtMostThreeFindings ==
    epc = "returned" => Len(envelope[1].problematic_sql_findings) <= 3

\* more than three rows were problematic and exactly three findings returned
C7_Witness ==
    /\ epc = "returned"
    /\ Len(KeptItems) > 3
    /\ Len(envelope[1].problematic_sql_findings) = 3

\* some HIGH-seeded clause of the filter table holds for the row
HighSeededClause(sql) ==
    \/ sql.elapsed >= 30
    \/ sql.executions >= 500
    \/ AvgGe(sql.elapsed_per_exec, <<1, 1>>)
    \/ PctGe(sql.pctcpu, 50)
    \/ PctGe(sql.pcttotal, 15)
    \/ sql.cpu >= 20

\* C8: the severity of every row the filter keeps is the highest seed among
\* the clauses the row triggers: HIGH if a HIGH-seeded clause holds, MEDIUM
\* otherwise.
C8_SeverityIsHighestSeed ==
    \A i \in DOMAIN KeptItems :
        KeptItems[i].severity =
            IF HighSeededClause(KeptItems[i].metrics) THEN "HIGH" ELSE "MEDIUM"

SeverityRank(severity) ==
    CASE severity = "NONE" -> 0 [] severity = "MEDIUM" -> 1 [] OTHER -> 2

\* the severity the filter assigned to the row at position i of top_sql
\* (NONE when it did not keep the row)
AssignedSeverity(i) ==
    IF \E k \in DOMAIN KeptItems : KeptItems[k].sql_id = top_sql[i].sql_id
    THEN (CHOOSE it \in Range(KeptItems) : it.sql_id = top_sql[i].sql_id).severity
    ELSE "NONE"

\* row b equals row a except for a larger elapsed, pctcpu or executions
RaisedFrom(a, b) ==
    \/ b.elapsed > a.elapsed /\ b = [a EXCEPT !.sql_id = b.sql_id,
                                              !.elapsed = b.elapsed]
    \/ b.pctcpu > a.pctcpu /\ b = [a EXCEPT !.sql_id = b.sql_id,
                                            !.pctcpu = b.pctcpu]
    \/ b.executions > a.executions
           /\ b = [a EXCEPT !.sql_id = b.sql_id, !.executions = b.executions]

\* C9: of two rows identical except for a larger elapsed, cpu_pct or
\* executions, the one with the larger value never gets the lower severity
\* (NONE < MEDIUM < HIGH).
C9_SeverityMonotone ==
    (epc = "returned" /\ envelope[1].status = "SUCCESS") =>
        \A i, j \in DOMAIN top_sql :
            RaisedFrom(top_sql[i], top_sql[j]) =>
                SeverityRank(AssignedSeverity(j))
                    >= SeverityRank(AssignedSeverity(i))

\* C10: when validation reports a violation, analyze_workload returns an
\* INVALID envelope with the violation list, zero findings and no analysis
\* result.
C10_InvalidBlocksAnalysis ==
    (/\ epc = "returned"
     /\ data_integrity_validator # << >>
     /\ data_integrity_validator[1].violations # << >>) =>
        /\ envelope[1].status = "INVALID"
        /\ envelope[1].violations = data_integrity_validator[1].violations
        /\ envelope[1].problematic_sql_findings = << >>
        /\ envelope[1].problematic_count = 0
        /\ envelope[1].workload_summary = << >>
        /\ problematic_sql = << >>

\* a workload with a problematic row was refused because of two violations
C10_Witness ==
    /\ epc = "returned"
    /\ data_integrity_validator # << >>
    /\ Len(data_integrity_validator[1].violations) = 2
    /\ \E i \in DOMAIN top_sql : IsProblematic(top_sql[i])
    /\ envelope[1].status = "INVALID"

\* ========================================================================
\* Properties of analyze_workload step by step
\* ========================================================================
DispatchStages == {"normalize", "evaluate", "generate_all"}

\* C11: in every request, every normalization, evaluation and generation
\* stage comes after the data-integrity validation of that request has
\* completed.
C11_ValidationBeforeDispatch ==
    \A i \in DOMAIN stages :
        stages[i] \in DispatchStages =>
            \E j \in 1 .. i - 1 : stages[j] = "validate_data_integrity"

\* the shortlisted items whose generation raises
RaisingItems ==
    {i \in DOMAIN local_problematic_items :
        GenerateAllRaises(
            evaluate(SignalsFromMetrics(local_problematic_items[i].sql_id,
                                        local_problematic_items[i].metrics),
                     hash_seed))}

\* C12: when the generation for a shortlisted SQL raises, the request still
\* ends with an envelope that holds one finding per shortlisted SQL: a
\* fallback finding for the SQL that raised and the regular finding of every
\* other one.
C12_ErrorBecomesFallbackFinding ==
    (apc \in {"returned", "raised"} /\ RaisingItems # {}) =>
        /\ envelope # << >>
        /\ Len(envelope[1].problematic_sql_findings)
               = Len(local_problematic_items)
        /\ \A i \in DOMAIN local_problematic_items :
               envelope[1].problematic_sql_findings[i].sql_id
                   = local_problematic_items[i].sql_id

\* C13: the second request on an unchanged workspace returns the envelope
\* the first one returned (the envelope of the model carries no timestamp).
C13_SecondRunSameEnvelope ==
    (run_no = 2 /\ apc = "returned") => envelope = first_envelope

InRange(s) ==
    /\ 0 <= s.cpu_pct /\ s.cpu_pct <= 100 * PctDen
    /\ 0 <= s.io_wait_pct /\ s.io_wait_pct <= 100 * PctDen
    /\ s.avg_exec_time >= 0

\* C19: the signals handed to the decision engine for an item have cpu_pct
\* and io_wait_pct within [0, 100] and a non-negative avg_exec_time, whether
\* they are built by _generate_dynamic_recommendations or by
\* normalize_from_rca.
C19_SignalsInRange ==
    apc = "normalized" =>
        /\ InRange(signals)
        /\ InRange(NormalizeFromRca(
               local_problematic_items[Len(local_dba_findings) + 1].metrics))

\* ------------------------------------------------------------------------
\* Properties of the unified metrics, the cache and the workspaces
\* ------------------------------------------------------------------------
\* C14: the metrics of a bundle are computed from its tables once: between
\* two ingestions, evictions or forced refreshes, no second computation
\* from the tables of the workspace takes place, because every reader is
\* answered from the memoized value.
C14_ComputedOncePerBundle ==
    \A ws \in Workspaces : computations[ws] <= 1

\* a thread has executed the check of get_unified_metrics and has not yet
\* executed its lookup
InsideGet(t) == threads[t].pc \in {"insert", "lookup"}

\* the thread executes a statement of an accessor in this step
AccessorStep(t) ==
    /\ threads[t].pc \in {"check", "insert", "lookup", "remove"}
    /\ threads'[t] # threads[t]

\* C15: the accessors of the cache are serialized: no thread executes the
\* check, insert, lookup or removal of an accessor call while another thread
\* is between the check and the lookup of its own call.
C15_AccessorsAtomic ==
    [][\A t \in Threads :
           AccessorStep(t) =>
               \A u \in Threads \ {t} : ~InsideGet(u)]_vars

\* C16: every file of a workspace, source HTML or extracted table, was
\* written by the last ingestion into that workspace: nothing of an earlier
\* ingestion remains.
C16_IngestionDiscardsPriorBundle ==
    \A ws \in Workspaces :
        \A f \in raw_html[ws] \cup parsed_csv[ws] :
            f.ingestion = ingestions[ws]

\* a workspace has received a second ingestion that left source files and
\* tables in it
C16_SecondIngestionStored ==
    \E ws \in Workspaces :
        /\ ingestions[ws] >= 2
        /\ raw_html[ws] # {}
        /\ parsed_csv[ws] # {}

\* C17: a call of clear_metrics_cache that names a workspace removes the
\* entry of that workspace and leaves every other entry as it was; a call
\* that names no workspace leaves the cache empty.
C17_EvictionFrame ==
    [][last_clear'.called =>
           IF last_clear'.csv_dir # << >>
           THEN metrics_cache' =
                    [k \in DOMAIN metrics_cache \ {last_clear'.csv_dir[1]}
                        |-> metrics_cache[k]]
           ELSE metrics_cache' = EmptyCache]_vars

\* the entry of one workspace has just been evicted while another workspace
\* keeps its memoized value
C17_OneEvictedOtherKept ==
    /\ last_clear.called
    /\ last_clear.hit
    /\ last_clear.csv_dir # << >>
    /\ \E ws \in DOMAIN metrics_cache :
           /\ ws # last_clear.csv_dir[1]
           /\ metrics_cache[ws].cached_metrics # << >>

\* the memoized values of the cache
CachedValues ==
    {metrics_cache[ws].cached_metrics[1] :
        ws \in {k \in DOMAIN metrics_cache :
                    metrics_cache[k].cached_metrics # << >>}}

\* C18: in every unified metrics value, both percentages lie between 0 and
\* 100.
C18_PercentagesInRange ==
    \A m \in CachedValues :
        /\ 0 <= m.cpu_percentage /\ m.cpu_percentage <= 1000
        /\ 0 <= m.io_wait_percentage /\ m.io_wait_percentage <= 1000

\* C20: a value computed without instance %Busy CPU, without host %Idle CPU
\* and with a DB CPU time of zero has a CPU percentage of zero and is
\* flagged invalid.
C20_NoCpuSourceIsInvalid ==
    \A m \in CachedValues :
        (/\ m.source_csv_files # {}
         /\ m.instance_cpu_busy_pct = << >>
         /\ m.host_cpu_idle_pct = << >>
         /\ m.db_cpu_time_s = 0)
            => (m.cpu_percentage = 0 /\ m.is_valid = FALSE)

\* ------------------------------------------------------------------------
\* Properties of the explanations and the vocabulary of a Decision Result
\* ------------------------------------------------------------------------
\* C23: a Decision Result that blocks at least one action has at least one
\* why_hidden entry.
C23_BlockedHasExplanation ==
    decision # << >> =>
        (decision[1].blocked_actions # << >> =>
            Len(decision[1].why_hidden) >= 1)

\* the engine has returned a Decision Result that blocks actions
C23_Witness ==
    /\ decision # << >>
    /\ decision[1].category = "IO_BOUND_SQL"
    /\ Len(decision[1].blocked_actions) = 3

\* C24: why_hidden has one sentence per blocked action: as many entries as
\* blocked actions, and every blocked action is the subject of one of them.
C24_OneSentencePerBlockedAction ==
    decision # << >> =>
        /\ Len(decision[1].why_hidden) = Len(decision[1].blocked_actions)
        /\ Range(decision[1].blocked_actions) \subseteq
               Range(decision[1].why_hidden)

\* the 17 actions of the vocabulary of the specification
SpecVocabulary ==
    { "PLAN_ANALYSIS", "INDEX_REVIEW", "INDEX_CREATION", "IO_OPTIMIZATION",
      "ACCESS_PATH_OPTIMIZATION", "SQL_ACCESS_ADVISOR", "SQL_TUNING_ADVISOR",
      "SQL_REWRITE", "JOIN_METHOD_REVIEW", "HASH_VS_NESTED_ANALYSIS",
      "BIND_TUNING", "APPLICATION_THROTTLING", "RESULT_CACHING", "CPU_TUNING",
      "JOIN_HINTS", "INDEX_ONLY_FIXES", "MONITOR_ONLY" }

\* C25: a LOW_PRIORITY Decision Result allows exactly MONITOR_ONLY and blocks
\* every other action of the vocabulary.
C25_LowPriorityBlocksTheRest ==
    (decision # << >> /\ decision[1].category = "LOW_PRIORITY") =>
        /\ Range(decision[1].allowed_actions) = {"MONITOR_ONLY"}
        /\ SpecVocabulary \ {"MONITOR_ONLY"} \subseteq
               Range(decision[1].blocked_actions)

\* C26: every allowed and every blocked action of a Decision Result is one
\* of the 17 actions of the vocabulary.
C26_ActionsWithinVocabulary ==
    decision # << >> =>
        Range(decision[1].allowed_actions) \cup
            Range(decision[1].blocked_actions) \subseteq SpecVocabulary

\* ------------------------------------------------------------------------
\* Properties of the IO-bound generator
\* ------------------------------------------------------------------------
\* the IO wait is above 90 percent and the SQL has run fewer than 10 times
AdvisorCase(s) == PctGt(s.io_wait_pct, 90) /\ s.executions < 10

\* C28: for an IO_BOUND_SQL signal the generated list has a SQL Access
\* Advisor artifact exactly when io_wait_pct > 90 and executions < 10, and an
\* advisor-deferred notice exactly in every other case.
C28_AdvisorOnlyWhenCriticalAndRare ==
    (pc = "generated" /\ decision[1].category = "IO_BOUND_SQL") =>
        /\ ("SQL_ACCESS_ADVISOR" \in Actions(generated)) <=> AdvisorCase(signals)
        /\ ("ADVISOR_DEFERRED" \in Actions(generated)) <=> ~AdvisorCase(signals)

\* the generator has emitted the advisor for an IO-bound SQL
C28_Witness ==
    /\ pc = "generated"
    /\ decision[1].category = "IO_BOUND_SQL"
    /\ AdvisorCase(signals)
    /\ "SQL_ACCESS_ADVISOR" \in Actions(generated)

\* ------------------------------------------------------------------------
\* Properties of the shortlist of the filter
\* ------------------------------------------------------------------------
\* all problematic SQL of the last filter run, most critical first
AllProblematic == problematic_sql \o ignored_sql

\* the candidates the filter looks at: the first three, or the first two when
\* the score of the third is below 40 percent of the score of the first
TopCandidates ==
    LET n == Len(AllProblematic)
    IN  IF n >= 3 /\ 10 * AllProblematic[3].dba_score
                         < 4 * AllProblematic[1].dba_score
        THEN SubSeq(AllProblematic, 1, 2)
        ELSE SubSeq(AllProblematic, 1, Min(3, n))

\* C27: when the filter has found more than one problematic SQL and exactly
\* one of the top candidates is HIGH or CRITICAL, it returns exactly one
\* finding.
C27_SingleHighReturnsOne ==
    (/\ epc = "returned"
     /\ Len(AllProblematic) > 1
     /\ Cardinality({i \in DOMAIN TopCandidates :
            TopCandidates[i].severity \in {"HIGH", "CRITICAL"}}) = 1)
        => Len(problematic_sql) = 1

\* C22: the ingestion of an AWR report succeeds exactly when the three
\* tables sql_stats, instance_stats and wait_events were all produced from
\* it, and fails when one of them was not.
ProducedFrom(ws, h) ==
    {f.table : f \in {g \in parsed_csv[ws] : g.report = h.report}}

C22_AwrIngestionNeedsAllTables ==
    \A ws \in Workspaces :
        \A h \in raw_html[ws] :
            h.type = "AWR" =>
                \A r \in parsing_results[ws] :
                    r.file = h.filename =>
                        (r.status = "success"
                             <=> MetricTables \subseteq ProducedFrom(ws, h))

\* C21: the high-load output lists an AWR block exactly when the workspace
\* holds a CSV file of an AWR report, and an ASH block exactly when it holds
\* a CSV file of an ASH report.
C21_BlocksFollowCsvFiles ==
    \A ws \in Workspaces :
        ingestions[ws] > 0 =>
            /\ "AWR" \in Range(high_load_periods[ws])
                   <=> \E f \in parsed_csv[ws] : f.table \in MetricTables
            /\ "ASH" \in Range(high_load_periods[ws])
                   <=> \E f \in parsed_csv[ws] : f.table \in AshTables

\* C29: under any interleaving of get_unified_metrics and clear_metrics_cache
\* calls, no get_unified_metrics call fails for want of its cache entry, and
\* two readers of a workspace that do not force a refresh and between whose
\* readings the workspace was not evicted have found one and the same
\* calculator.
C29_ReadersSucceedAndShare ==
    /\ \A t \in Threads : threads[t].pc # "raised"
    /\ \A t1, t2 \in Threads :
           ( /\ threads[t1].op = "get_unified_metrics"
             /\ threads[t2].op = "get_unified_metrics"
             /\ threads[t1].pc \in {"compute", "returned"}
             /\ threads[t2].pc \in {"compute", "returned"}
             /\ threads[t1].csv_dir = threads[t2].csv_dir
             /\ ~ threads[t1].force_refresh /\ ~ threads[t2].force_refresh
             /\ ~ threads[t1].evicted /\ ~ threads[t2].evicted )
               => threads[t1].ref = threads[t2].ref

\* C30: once an ingestion into a workspace has completed, a read of the
\* workspace's Unified Metrics returns a value computed from the files of
\* that ingestion, never a value memoized from the bundle before it, whether
\* or not the metrics were read before the ingestion and whether or not its
\* files parsed.  A read through the cache returns the memoized value of the
\* cached calculator when there is one and computes from the files
\* otherwise, so it is enough that every memoized value in the cache is the
\* value the present files of the workspace give.
ValueOfPresentFiles(ws) ==
    ComputeMetricsFresh(
        UnifiedMetricsCalculator(ws, metrics_cache[ws].html_file_path),
        TRUE, parsed_csv[ws], raw_html[ws]).metrics

C30_MemoizedValueIsOfPresentBundle ==
    \A ws \in DOMAIN metrics_cache :
        metrics_cache[ws].cached_metrics # << >> =>
            metrics_cache[ws].cached_metrics[1] = ValueOfPresentFiles(ws)

\* a workspace has received a second ingestion in which a report failed to
\* parse, and its metrics have been read through the cache since and
\* computed from the tables the ingestion left
C30_Witness ==
    \E ws \in Workspaces :
        /\ ingestions[ws] = 2
        /\ \E r \in parsing_results[ws] : r.status = "error"
        /\ computations[ws] = 2
        /\ ws \in DOMAIN metrics_cache
        /\ metrics_cache[ws].cached_metrics # << >>

====
